---- MODULE Spec2Model ----
(***************************************************************************)
(* koishi-plugin-bangumi-sub: the push scheduler, the subscription store   *)
(* commands and the calendar cache, as state machines.                     *)
(*                                                                         *)
(* Time is in milliseconds, as in the code.  The clock's zero is a local   *)
(* midnight that begins a Sunday (getDay() = 0); local days are taken to   *)
(* be 24 hours long (no DST change inside a run).  Strings the code parses *)
(* (airTime, bangumiId, broadcast, url) are tuples of one-character        *)
(* strings, so that the regular expressions and Number() are modelled by   *)
(* what they do.                                                           *)
(*                                                                         *)
(* An async handler is one action for each stretch of code between two     *)
(* awaits that the outside answers (a store call, an HTTP request); an     *)
(* await of session.send or of a call that returns at once does not split  *)
(* an action where nothing shared is read or written before it.  Arrays    *)
(* are held by reference (heap), so that a sort in place is seen by every  *)
(* holder.  The store calls of the commands are taken to succeed.          *)
(***************************************************************************)
EXTENDS Integers, Sequences, FiniteSets, TLC

VARIABLES
  now,                  \* Date.now() / new Date(): the wall clock (ms)
  subscriptionInterval, \* config.subscriptionInterval (minutes)
  timer,                \* the setInterval handle: "active" or "cleared"
  lastFire,             \* when the interval timer was armed or last fired
  ticks,                \* every checkAndPushSubscriptions() call, in start order
  attempts,             \* every sendPushNotification(sub) call made by a tick
  store,                \* table bangumi_sub, in retrieval order
  bots,                 \* ctx.bots: the status of each bot, in pool order
  procs,                \* the command handlers that are running, and where
  cmds,                 \* how many commands have been received
  last,                 \* the command that returned last, and its reply
  nextId,               \* table bangumi_sub: the next autoInc id
  heap,                 \* the BangumiItem[] arrays that exist, by reference
  heapSrc,              \* for each array, the bangumiArray and time it was built from
  calendarCache,        \* let calendarCache: a reference into heap
  lastFetchTime,        \* let lastFetchTime
  calls,                \* how many fetchCalendarData() calls have begun
  onairCalls,           \* how many requests to the onair API were made
  lastReturn,           \* the fetchCalendarData() call that returned last
  pure,                 \* one call of a function of services/bangumi.ts on its own
  behindUtc             \* the host's time zone is behind UTC (west of Greenwich)

schedVars == <<now, subscriptionInterval, timer, lastFire, ticks, attempts, bots>>
schedOnly == <<subscriptionInterval, timer, lastFire, ticks, attempts, bots, pure, behindUtc>>
cacheVars == <<heap, heapSrc, calendarCache, lastFetchTime, calls, onairCalls, lastReturn>>
cmdVars == <<procs, cmds, last, nextId, heap, heapSrc, calendarCache, lastFetchTime,
             calls, onairCalls, lastReturn, pure, behindUtc>>
vars == <<now, subscriptionInterval, timer, lastFire, ticks, attempts, store, bots,
          procs, cmds, last, nextId, heap, heapSrc, calendarCache, lastFetchTime,
          calls, onairCalls, lastReturn, pure, behindUtc>>

----------------------------------------------------------------------------
(* Bounds of the model *)

MaxTicks == 3      \* timer firings in a run
MaxInflight == 2   \* ticks running at the same time
Jitter == 1        \* ms by which a firing may be early or late
MaxProcs == 2      \* command handlers running at the same time
MaxCmds == 2       \* commands received in a run
MaxClockSteps == 2 \* half hours that pass during a run of commands

----------------------------------------------------------------------------
(* Time and characters *)

MsPerMinute == 60 * 1000
MsPerHour == 60 * MsPerMinute
MsPerDay == 24 * MsPerHour

At(day, h, m, s, ms) == day * MsPerDay + h * MsPerHour + m * MsPerMinute + s * 1000 + ms

\* Date.prototype.getDay(): 0 = Sunday .. 6 = Saturday
getDay(t) == (t \div MsPerDay) % 7

\* local midnight of t's day
startOfDay(t) == (t \div MsPerDay) * MsPerDay

Digits == {"0", "1", "2", "3", "4", "5", "6", "7", "8", "9"}

DigitVal(c) ==
  CASE c = "0" -> 0 [] c = "1" -> 1 [] c = "2" -> 2 [] c = "3" -> 3 [] c = "4" -> 4
    [] c = "5" -> 5 [] c = "6" -> 6 [] c = "7" -> 7 [] c = "8" -> 8 [] c = "9" -> 9

\* Number("dd") for a two-digit string
Number2(s) == 10 * DigitVal(s[1]) + DigitVal(s[2])

\* messages.detail.timeUnknown, the sentinel written when an item has no time
timeUnknown == <<"?", "?">>

----------------------------------------------------------------------------
(* checkAndPushSubscriptions: the pure parts *)

\* config.subscriptionInterval * 60 * 1000
intervalMillis == subscriptionInterval * 60 * 1000

\* a lower end of the window that would be remembered from the tick before
lastCheckSincePrevious(t) ==
  IF ticks = <<>> THEN t - intervalMillis ELSE ticks[Len(ticks)].now

\* new Date(now.getTime() - intervalMillis)
lastCheckTimeAt(t) == t - intervalMillis

\* a weekday that would be taken from getDay() as it is
todayWeekdayJs(t) == getDay(t)

\* jsDay === 0 ? 7 : jsDay
todayWeekday(t) == IF getDay(t) = 0 THEN 7 ELSE getDay(t)

\* a test that would not anchor the pattern at the end
airTimeWellFormedUnanchored(a) ==
  /\ Len(a) >= 5
  /\ a[1] \in Digits /\ a[2] \in Digits
  /\ a[3] = ":"
  /\ a[4] \in Digits /\ a[5] \in Digits

\* sub.airTime && /^\d{2}:\d{2}$/.test(sub.airTime)
airTimeWellFormed(a) ==
  /\ Len(a) = 5
  /\ a[1] \in Digits /\ a[2] \in Digits
  /\ a[3] = ":"
  /\ a[4] \in Digits /\ a[5] \in Digits

\* new Date(now).setHours(hour, minute, 0, 0), hour and minute from split(':')
airTimeDate(t, a) ==
  startOfDay(t) + Number2(SubSeq(a, 1, 2)) * MsPerHour + Number2(SubSeq(a, 4, 5)) * MsPerMinute

IsDueNoUpper(t, lastCheckTime, a) == airTimeDate(t, a) > lastCheckTime

\* airTimeDate > lastCheckTime && airTimeDate <= now
IsDue(t, lastCheckTime, a) ==
  airTimeDate(t, a) > lastCheckTime /\ airTimeDate(t, a) <= t

\* ctx.bots.filter(bot => bot.status === 1)
OnlineBots == SelectSeq(bots, LAMBDA b : b.status = 1)

chosenBotLast(online) == online[Len(online)]

\* const bot = bots[0]
chosenBot(online) == online[1]

\* What sendPushNotification returns once bot.sendMessage has returned (ok)
\* or raised (~ok): return true after the await, return false in the catch.
sendResult(ok) == IF ok THEN "true" ELSE "false"

\* One call of sendPushNotification(sub) by tick n, up to its await or its
\* return: the bots it called sendMessage on, how that call ended, and what
\* the function returned.  With no bot online it returns false at once.
Attempt(n, sub, at) ==
  [tick |-> n, sub |-> sub.id, at |-> at, disposed |-> timer = "cleared",
   called |-> IF Len(OnlineBots) > 0 THEN <<chosenBot(OnlineBots).id>> ELSE <<>>,
   sent |-> IF Len(OnlineBots) > 0 THEN "pending" ELSE "none",
   result |-> IF Len(OnlineBots) > 0 THEN "pending" ELSE "false"]

\* a query that would leave out the records a tick has attempted before
StoreByWeekdayNotYetFired(w) ==
  SelectSeq(store, LAMBDA r : r.weekday = w /\ \A k \in DOMAIN attempts : attempts[k].sub # r.id)

\* ctx.database.get('bangumi_sub', { weekday })
StoreByWeekday(w) == SelectSeq(store, LAMBDA r : r.weekday = w)

\* The for loop of a tick from index i on, up to the next await that leaves the
\* event loop (bot.sendMessage) or to the end.  A subscription that is not due
\* is skipped in the same run; sendPushNotification with no bot online returns
\* false without awaiting anything outside, and the loop goes on.
RECURSIVE RunLoop(_, _, _, _)
RunLoop(n, t, i, log) ==
  IF i > Len(t.subs)
  THEN [t |-> [t EXCEPT !.pc = "done", !.i = i], log |-> log]
  ELSE LET sub == t.subs[i]
           att == Attempt(n, sub, airTimeDate(t.now, sub.airTime))
       IN IF ~airTimeWellFormed(sub.airTime) THEN RunLoop(n, t, i + 1, log)
          ELSE IF ~IsDue(t.now, t.lastCheckTime, sub.airTime) THEN RunLoop(n, t, i + 1, log)
          ELSE IF OnlineBots = <<>> THEN RunLoop(n, t, i + 1, Append(log, att))
          ELSE [t |-> [t EXCEPT !.pc = "send", !.i = i], log |-> Append(log, att)]

----------------------------------------------------------------------------
(* Strings as character tuples: the regular expressions of the code.  A     *)
(* character outside ASCII is written as its code point, "U+5468".          *)

\* s matches pat at position i; in pat, "#" stands for \d
MatchAt(s, i, pat) ==
  /\ i >= 1 /\ i + Len(pat) - 1 <= Len(s)
  /\ \A k \in DOMAIN pat :
       IF pat[k] = "#" THEN s[i + k - 1] \in Digits ELSE s[i + k - 1] = pat[k]

\* where the leftmost match of pat in s at or after i begins, 0 if there is none
RECURSIVE MatchFrom(_, _, _)
MatchFrom(s, i, pat) ==
  IF i + Len(pat) - 1 > Len(s) THEN 0
  ELSE IF MatchAt(s, i, pat) THEN i
  ELSE MatchFrom(s, i + 1, pat)

\* where the leftmost match of pat in s begins, 0 if there is none
FirstMatch(s, pat) == MatchFrom(s, 1, pat)

\* the longest run of digits of s that begins at i (the greedy \d+)
RECURSIVE DigitRun(_, _)
DigitRun(s, i) ==
  IF i <= Len(s) /\ s[i] \in Digits THEN <<s[i]>> \o DigitRun(s, i + 1) ELSE <<>>

\* a test that would take any text that is present
AnyText(s) == Len(s) > 0

\* !s || !/^\d+$/.test(s), negated: s is present and all digits
AllDigits(s) == Len(s) > 0 /\ \A i \in DOMAIN s : s[i] \in Digits

\* Number(s) for a string of digits
RECURSIVE NumberOf(_)
NumberOf(s) ==
  IF s = <<>> THEN 0 ELSE 10 * NumberOf(SubSeq(s, 1, Len(s) - 1)) + DigitVal(s[Len(s)])

----------------------------------------------------------------------------
(* Calendar dates *)

\* days from 1970-01-01 to the clock's zero, Sunday 2024-06-23 (local time)
EpochDay0 == 19897

\* days from 1970-01-01 to the civil date y-m-d (d may exceed the month's
\* length: the date then runs over into the next month, as in Date)
DaysFromCivil(y, m, d) ==
  LET yy == IF m <= 2 THEN y - 1 ELSE y
      era == yy \div 400
      yoe == yy - era * 400
      doy == (153 * (IF m > 2 THEN m - 3 ELSE m + 9) + 2) \div 5 + d - 1
      doe == yoe * 365 + yoe \div 4 - yoe \div 100 + doy
  IN era * 146097 + doe - 719468

\* the civil date of day z (days from 1970-01-01)
CivilFromDays(z) ==
  LET zz == z + 719468
      era == zz \div 146097
      doe == zz - era * 146097
      yoe == (doe - doe \div 1460 + doe \div 36524 - doe \div 146096) \div 365
      doy == doe - (365 * yoe + yoe \div 4 - yoe \div 100)
      mp == (5 * doy + 2) \div 153
      m == IF mp < 10 THEN mp + 3 ELSE mp - 9
  IN [year |-> yoe + era * 400 + (IF m <= 2 THEN 1 ELSE 0), month |-> m,
      day |-> doy - (153 * mp + 2) \div 5 + 1]

\* new Date() at clock value t: the local civil date
currentDate(t) == CivilFromDays(EpochDay0 + t \div MsPerDay)

----------------------------------------------------------------------------
(* parseAirTime and isCurrentSeasonAnime *)

NoAirTime == [weekday |-> 0, time |-> <<>>, date |-> <<>>, none |-> TRUE]

IsoPattern ==
  <<"#", "#", "#", "#", "-", "#", "#", "-", "#", "#", "T",
    "#", "#", ":", "#", "#", ":", "#", "#">>

\* NaN, where the code computes with an invalid Date
NaN == -1

\* new Date("YYYY-MM-DDTHH:MM:SS").getDay(), NaN for an invalid date
IsoGetDay(m) ==
  LET y == NumberOf(SubSeq(m, 1, 4))
      mo == NumberOf(SubSeq(m, 6, 7))
      d == NumberOf(SubSeq(m, 9, 10))
      hh == NumberOf(SubSeq(m, 12, 13))
      mi == NumberOf(SubSeq(m, 15, 16))
      ss == NumberOf(SubSeq(m, 18, 19))
      valid == /\ mo \in 1..12 /\ d \in 1..31 /\ mi < 60 /\ ss < 60
               /\ (hh < 24 \/ (hh = 24 /\ mi = 0 /\ ss = 0))
  IN IF valid
     THEN (DaysFromCivil(y, mo, d) + (IF hh = 24 THEN 1 ELSE 0) + 4) % 7
     ELSE NaN

WeekdayNames == {"U+4E00", "U+4E8C", "U+4E09", "U+56DB", "U+4E94", "U+516D", "U+65E5"}

\* weekdayMap[...] || 0
weekdayMap(c) ==
  CASE c = "U+4E00" -> 1 [] c = "U+4E8C" -> 2 [] c = "U+4E09" -> 3 [] c = "U+56DB" -> 4
    [] c = "U+4E94" -> 5 [] c = "U+516D" -> 6 [] c = "U+65E5" -> 7 [] OTHER -> 0

\* s has, at i, U+5468 and a weekday name, then blanks, then \d{1,2}:\d{2};
\* the value is the time matched, <<>> if there is no match at i
RECURSIVE SkipBlanks(_, _)
SkipBlanks(s, i) == IF i <= Len(s) /\ s[i] = " " THEN SkipBlanks(s, i + 1) ELSE i

SimpleTimeAt(s, i) ==
  IF i + 1 <= Len(s) /\ s[i] = "U+5468" /\ s[i + 1] \in WeekdayNames
  THEN LET j == SkipBlanks(s, i + 2)
       IN IF MatchAt(s, j, <<"#", "#", ":", "#", "#">>) THEN SubSeq(s, j, j + 4)
          ELSE IF MatchAt(s, j, <<"#", ":", "#", "#">>) THEN SubSeq(s, j, j + 3)
          ELSE <<>>
  ELSE <<>>

\* where the leftmost match of the simple format at or after i begins
RECURSIVE SimpleFrom(_, _)
SimpleFrom(s, i) ==
  IF i > Len(s) THEN 0
  ELSE IF SimpleTimeAt(s, i) # <<>> THEN i
  ELSE SimpleFrom(s, i + 1)

parseAirTime(broadcast) ==
  IF broadcast = <<>> THEN NoAirTime
  ELSE LET i == FirstMatch(broadcast, IsoPattern) IN
    IF i > 0
    THEN LET isoMatch == SubSeq(broadcast, i, i + 18)
             g == IsoGetDay(isoMatch)
         IN [weekday |-> IF g = 0 THEN 7 ELSE g, time |-> SubSeq(isoMatch, 12, 16),
             date |-> SubSeq(isoMatch, 1, 10), none |-> FALSE]
    ELSE LET k == SimpleFrom(broadcast, 1) IN
      IF k > 0
      THEN [weekday |-> weekdayMap(broadcast[k + 1]), time |-> SimpleTimeAt(broadcast, k),
            date |-> <<>>, none |-> FALSE]
      ELSE NoAirTime

\* a season test that would look at the year only
isSameYearAnime(airDate, t) ==
  airDate # <<>> /\ NumberOf(SubSeq(airDate, 1, 4)) = currentDate(t).year

\* airDate is "YYYY-MM-DD" or empty here.  new Date(airDate) is midnight UTC of
\* that day, and getFullYear() and getMonth() give the local date of that
\* instant: the same day on a host at or ahead of UTC, the day before on a
\* host behind UTC.
isCurrentSeasonAnime(airDate, t) ==
  IF airDate = <<>> THEN FALSE
  ELSE LET currentYear == currentDate(t).year
           currentMonth == currentDate(t).month
           currentQuarter == (currentMonth + 2) \div 3
           seasonStartMonth == (currentQuarter - 1) * 3 + 1
           mo == NumberOf(SubSeq(airDate, 6, 7))
           d == NumberOf(SubSeq(airDate, 9, 10))
           air == IF mo \in 1..12 /\ d \in 1..31
                  THEN CivilFromDays(DaysFromCivil(NumberOf(SubSeq(airDate, 1, 4)), mo, d)
                                     - (IF behindUtc THEN 1 ELSE 0))
                  ELSE [year |-> NaN, month |-> NaN, day |-> NaN]
       IN air.year # NaN /\ air.year = currentYear /\ air.month >= seasonStartMonth

----------------------------------------------------------------------------
(* fetchCalendarData: the pure parts *)

\* const CACHE_DURATION = 3600 * 1000
CACHE_DURATION == 3600 * 1000

\* item.sites?.find(site => site.site === 'bangumi'), <<>> for undefined
bangumiSite(item) ==
  LET hits == SelectSeq(item.sites, LAMBDA s : s.site = "bangumi")
  IN IF hits = <<>> THEN <<>> ELSE <<hits[1]>>

\* the id taken from the bangumi site record: from the url when the record has
\* a url (and then only from it), else from its id field; <<>> when none
bangumiIdOf(site) ==
  IF site.url # <<>>
  THEN LET i == FirstMatch(site.url, <<"s", "u", "b", "j", "e", "c", "t", "/", "#">>)
       IN IF i > 0 THEN DigitRun(site.url, i + 8) ELSE <<>>
  ELSE site.id

\* item.sites?.filter(site => site.site !== 'bangumi').map(site => site.site)
platformsOf(item) ==
  LET others == SelectSeq(item.sites, LAMBDA s : s.site # "bangumi")
  IN [i \in DOMAIN others |-> others[i].site]

\* the BangumiItem built from a raw entry
bangumiItem(item, bangumiId, airTime) ==
  [id |-> bangumiId, title |-> item.title, airTime |-> airTime,
   weekday |-> IF airTime.weekday = NaN THEN 0 ELSE airTime.weekday,
   platforms |-> platformsOf(item)]

\* the body of the for loop over bangumiArray: what one raw entry adds to
\* processedItems (nothing, or one item)
pushed(item, t) ==
  LET site == bangumiSite(item)
      bangumiId == IF site = <<>> THEN <<>> ELSE bangumiIdOf(site[1])
      airTime == parseAirTime(item.broadcast)
  IN IF bangumiId = <<>> THEN <<>>
     ELSE IF airTime.date = <<>> \/ ~isCurrentSeasonAnime(airTime.date, t) THEN <<>>
     ELSE <<bangumiItem(item, bangumiId, airTime)>>

\* processedItems as it stands after the first push of the loop
processedItemsAfterFirstPush(bangumiArray, t) ==
  LET rest == SelectSeq(bangumiArray, LAMBDA item : pushed(item, t) # <<>>)
  IN IF rest = <<>> THEN <<>> ELSE pushed(rest[1], t)

\* processedItems when the loop is over
RECURSIVE processedItems(_, _)
processedItems(bangumiArray, t) ==
  IF bangumiArray = <<>> THEN <<>>
  ELSE pushed(Head(bangumiArray), t) \o processedItems(Tail(bangumiArray), t)

\* a format test that would take any object
expectedFormatAnyObject(response) == response.shape \in {"array", "object"}

\* the response is an array, or an object whose items field is an array
expectedFormat(response) ==
  response.shape = "array" \/ (response.shape = "object" /\ response.hasItems)

\* item.sites of a null entry: the loop over bangumiArray throws there
loopThrows(bangumiArray) == \E i \in DOMAIN bangumiArray : bangumiArray[i].null

\* the comparator of the week command's sort: negative, zero or positive
RECURSIVE compareChars(_, _)
compareChars(a, b) ==
  IF a = <<>> /\ b = <<>> THEN 0
  ELSE IF a = <<>> THEN -1
  ELSE IF b = <<>> THEN 1
  ELSE IF Head(a) = Head(b) THEN compareChars(Tail(a), Tail(b))
  ELSE IF Head(a) \in Digits /\ Head(b) \in Digits
       THEN DigitVal(Head(a)) - DigitVal(Head(b))
  ELSE IF Head(b) \in Digits THEN -1 ELSE 1

T9999 == <<"9", "9", ":", "9", "9">>

weekCompare(a, b) ==
  IF a.weekday # b.weekday THEN a.weekday - b.weekday
  ELSE compareChars(IF a.airTime.time = <<>> THEN T9999 ELSE a.airTime.time,
                    IF b.airTime.time = <<>> THEN T9999 ELSE b.airTime.time)

\* Array.prototype.sort with that comparator (stable)
RECURSIVE InsertSorted(_, _)
InsertSorted(sorted, x) ==
  IF sorted = <<>> THEN <<x>>
  ELSE IF weekCompare(sorted[Len(sorted)], x) <= 0 THEN Append(sorted, x)
  ELSE Append(InsertSorted(SubSeq(sorted, 1, Len(sorted) - 1), x), sorted[Len(sorted)])

RECURSIVE sortItems(_)
sortItems(items) ==
  IF items = <<>> THEN <<>>
  ELSE InsertSorted(sortItems(SubSeq(items, 1, Len(items) - 1)), items[Len(items)])

----------------------------------------------------------------------------
(* The functions of services/bangumi.ts called on their own *)

\* no function is being called on its own
NoCall ==
  [fn |-> "none", broadcast |-> <<>>, airDate |-> <<>>, bangumiArray |-> <<>>,
   returned |-> FALSE, airTime |-> NoAirTime, inSeason |-> FALSE, items |-> <<>>]

\* parseAirTime(pure.broadcast) returns
ParseAirTimeCall ==
  /\ pure.fn = "parseAirTime" /\ ~pure.returned
  /\ pure' = [pure EXCEPT !.returned = TRUE, !.airTime = parseAirTime(pure.broadcast)]
  /\ UNCHANGED <<now, subscriptionInterval, timer, lastFire, ticks, attempts, store, bots>>
  /\ UNCHANGED <<procs, cmds, last, nextId, cacheVars, behindUtc>>

\* isCurrentSeasonAnime(pure.airDate) returns, new Date() being now
IsCurrentSeasonAnimeCall ==
  /\ pure.fn = "isCurrentSeasonAnime" /\ ~pure.returned
  /\ pure' = [pure EXCEPT !.returned = TRUE,
                          !.inSeason = isCurrentSeasonAnime(pure.airDate, now)]
  /\ UNCHANGED <<now, subscriptionInterval, timer, lastFire, ticks, attempts, store, bots>>
  /\ UNCHANGED <<procs, cmds, last, nextId, cacheVars, behindUtc>>

\* the loop of fetchCalendarData over pure.bangumiArray ends, new Date() being
\* now
ProcessedItemsCall ==
  /\ pure.fn = "processedItems" /\ ~pure.returned /\ ~loopThrows(pure.bangumiArray)
  /\ pure' = [pure EXCEPT !.returned = TRUE,
                          !.items = processedItems(pure.bangumiArray, now)]
  /\ UNCHANGED <<now, subscriptionInterval, timer, lastFire, ticks, attempts, store, bots>>
  /\ UNCHANGED <<procs, cmds, last, nextId, cacheVars, behindUtc>>

----------------------------------------------------------------------------
(* The scheduler's actions *)

Inflight == {n \in DOMAIN ticks : ticks[n].pc \in {"query", "send"}}

\* checkAndPushSubscriptions called at time t, up to its first await: now,
\* lastCheckTime and todayWeekday are set and the store query is issued
NewTick(t) ==
  [now |-> t, lastCheckTime |-> lastCheckTimeAt(t), todayWeekday |-> todayWeekday(t),
   pc |-> "query", disposed |-> timer = "cleared",
   subs |-> <<>>, i |-> 0, pushedCount |-> 0]

\* The interval timer fires `gap` ms after it was armed or last fired, and
\* checkAndPushSubscriptions runs to its first await: it reads now, derives
\* lastCheckTime and todayWeekday, and issues the store query.
Fire(gap) ==
  /\ timer = "active"
  /\ Len(ticks) < MaxTicks
  /\ Cardinality(Inflight) < MaxInflight
  /\ lastFire + gap >= now
  /\ now' = lastFire + gap
  /\ lastFire' = lastFire + gap
  /\ ticks' = Append(ticks, NewTick(now'))
  /\ UNCHANGED <<subscriptionInterval, timer, attempts, store, bots>>
  /\ UNCHANGED cmdVars

\* subscriptionService.checkAndPushSubscriptions() is called at the present
\* time by a holder of the service, and runs to its first await.
Invoke ==
  /\ Len(ticks) < MaxTicks
  /\ Cardinality(Inflight) < MaxInflight
  /\ ticks' = Append(ticks, NewTick(now))
  /\ UNCHANGED <<now, subscriptionInterval, timer, lastFire, attempts, store, bots>>
  /\ UNCHANGED cmdVars

\* The store query of tick n returns; the loop runs to its first sendMessage.
TickQueryReturn(n) ==
  /\ n \in DOMAIN ticks /\ ticks[n].pc = "query"
  /\ LET snap == StoreByWeekday(ticks[n].todayWeekday)
         t0 == [ticks[n] EXCEPT !.subs = snap]
         r == IF Len(snap) = 0 THEN [t |-> [t0 EXCEPT !.pc = "done"], log |-> attempts]
              ELSE RunLoop(n, t0, 1, attempts)
     IN /\ ticks' = [ticks EXCEPT ![n] = r.t]
        /\ attempts' = r.log
  /\ UNCHANGED <<now, subscriptionInterval, timer, lastFire, store, bots>>
  /\ UNCHANGED cmdVars

\* a failure of the query that would also stop the timer
TickQueryFailStopsTimer(n) ==
  /\ n \in DOMAIN ticks /\ ticks[n].pc = "query"
  /\ ticks' = [ticks EXCEPT ![n].pc = "failed"]
  /\ timer' = "cleared"
  /\ UNCHANGED <<now, subscriptionInterval, lastFire, attempts, store, bots>>
  /\ UNCHANGED cmdVars

\* a failure of the query that would never reach the caller
TickQueryFailUnsettled(n) ==
  /\ n \in DOMAIN ticks /\ ticks[n].pc = "query"
  /\ ticks' = [ticks EXCEPT ![n].pc = "unsettled"]
  /\ UNCHANGED <<now, subscriptionInterval, timer, lastFire, attempts, store, bots>>
  /\ UNCHANGED cmdVars

\* The store query of tick n raises: the outer catch logs and the tick ends.
TickQueryFail(n) ==
  /\ n \in DOMAIN ticks /\ ticks[n].pc = "query"
  /\ ticks' = [ticks EXCEPT ![n].pc = "failed"]
  /\ UNCHANGED <<now, subscriptionInterval, timer, lastFire, attempts, store, bots>>
  /\ UNCHANGED cmdVars

\* a loop that would stop at the first delivery that failed
nextIndexBreakOnFailure(t, ok) == IF ok THEN t.i + 1 ELSE Len(t.subs) + 1

\* for (const sub of subscriptions): the element after the one whose
\* sendPushNotification returned, whatever it returned
nextIndex(t, ok) == t.i + 1

\* a tick that would remove a subscription once its push has succeeded
TickSendReturnRemovesPushed(n, ok) ==
  /\ n \in DOMAIN ticks /\ ticks[n].pc = "send"
  /\ LET t0 == [ticks[n] EXCEPT !.pushedCount = IF ok THEN @ + 1 ELSE @]
         returned == [k \in DOMAIN attempts |->
                        IF attempts[k].tick = n /\ attempts[k].sent = "pending"
                        THEN [attempts[k] EXCEPT !.sent = IF ok THEN "ok" ELSE "raised",
                                                 !.result = IF ok THEN "true" ELSE "false"]
                        ELSE attempts[k]]
         r == RunLoop(n, t0, t0.i + 1, returned)
     IN /\ ticks' = [ticks EXCEPT ![n] = r.t]
        /\ attempts' = r.log
        /\ store' = IF ok THEN SelectSeq(store, LAMBDA x : x.id # t0.subs[t0.i].id)
                    ELSE store
  /\ UNCHANGED <<now, subscriptionInterval, timer, lastFire, bots>>
  /\ UNCHANGED cmdVars

\* a tick that would read the table again before each delivery
TickSendReturnReadsAgain(n, ok) ==
  /\ n \in DOMAIN ticks /\ ticks[n].pc = "send"
  /\ LET t0 == [ticks[n] EXCEPT !.pushedCount = IF ok THEN @ + 1 ELSE @,
                                !.subs = StoreByWeekday(ticks[n].todayWeekday)]
         returned == [k \in DOMAIN attempts |->
                        IF attempts[k].tick = n /\ attempts[k].sent = "pending"
                        THEN [attempts[k] EXCEPT !.sent = IF ok THEN "ok" ELSE "raised",
                                                 !.result = IF ok THEN "true" ELSE "false"]
                        ELSE attempts[k]]
         r == RunLoop(n, t0, t0.i + 1, returned)
     IN /\ ticks' = [ticks EXCEPT ![n] = r.t]
        /\ attempts' = r.log
  /\ UNCHANGED <<now, subscriptionInterval, timer, lastFire, store, bots>>
  /\ UNCHANGED cmdVars

\* bot.sendMessage of tick n returns (ok) or raises (~ok): sendPushNotification
\* returns true or false, and the loop goes on with the next subscription.
TickSendReturn(n, ok) ==
  /\ n \in DOMAIN ticks /\ ticks[n].pc = "send"
  /\ LET t0 == [ticks[n] EXCEPT !.pushedCount = IF sendResult(ok) = "true" THEN @ + 1 ELSE @]
         returned == [k \in DOMAIN attempts |->
                        IF attempts[k].tick = n /\ attempts[k].sent = "pending"
                        THEN [attempts[k] EXCEPT !.sent = IF ok THEN "ok" ELSE "raised",
                                                 !.result = sendResult(ok)]
                        ELSE attempts[k]]
         r == RunLoop(n, t0, nextIndex(t0, ok), returned)
     IN /\ ticks' = [ticks EXCEPT ![n] = r.t]
        /\ attempts' = r.log
  /\ UNCHANGED <<now, subscriptionInterval, timer, lastFire, store, bots>>
  /\ UNCHANGED cmdVars

\* ctx.on('dispose'): clearInterval(subscriptionInterval)
Dispose ==
  /\ timer = "active"
  /\ timer' = "cleared"
  /\ UNCHANGED <<now, subscriptionInterval, lastFire, ticks, attempts, store, bots>>
  /\ UNCHANGED cmdVars

----------------------------------------------------------------------------
(* The command handlers and fetchCalendarData: their state *)

\* when the commands of a run begin: Saturday 2024-07-06, 14:00
CmdStart == At(13, 14, 0, 0, 0)

ProcIds == 1 .. MaxProcs

Idle ==
  [kind |-> "idle", pc |-> "idle", channelId |-> "", bangumiId |-> <<>>, index |-> 0,
   call |-> 0, requests |-> <<>>, allItems |-> 0, bangumi |-> <<>>, subToDelete |-> 0]

NoCommand == [kind |-> "none", channelId |-> "", bangumiId |-> <<>>, index |-> 0,
              outcome |-> "none"]

NoReturn == [call |-> 0, ref |-> 0, how |-> "none", prev |-> 0, answered |-> TRUE]

\* the array behind a reference; reference 0 is a fresh empty array (return [])
Deref(ref) == IF ref = 0 THEN <<>> ELSE heap[ref]

\* no command is running and none has run; the module variables of
\* services/bangumi.ts are as declared
CmdQuiet ==
  /\ procs = [p \in ProcIds |-> Idle]
  /\ cmds = 0
  /\ last = NoCommand
  /\ nextId = Len(store) + 1
  /\ heap = << <<>> >>
  /\ heapSrc = << [bangumiArray |-> <<>>, at |-> 0] >>
  /\ calendarCache = 1
  /\ lastFetchTime = 0
  /\ calls = 0
  /\ onairCalls = 0
  /\ lastReturn = NoReturn

\* the reply of a handler
Reply(proc, outcome) ==
  [kind |-> proc.kind, channelId |-> proc.channelId, bangumiId |-> proc.bangumiId,
   index |-> proc.index, outcome |-> outcome]

\* handler p returns with a reply
Finish(p, outcome) ==
  /\ procs' = [procs EXCEPT ![p] = Idle]
  /\ last' = Reply(procs[p], outcome)

----------------------------------------------------------------------------
(* fetchCalendarData *)

\* an http request of a refresh: the source asked, the season key of an
\* archive request, and whether it is pending, answered ("ok") or failed
Request(source, key, state) == [source |-> source, key |-> key, state |-> state]

\* `${year}q${quarter}` of new Date(), as the pair <<year, quarter>>
seasonKey(t) == << currentDate(t).year, (currentDate(t).month + 2) \div 3 >>

\* a failed refresh that would fall back on what is cached
ErrorResultPrevious(cache) == cache

\* the value of a failed refresh: return [], whatever is cached
ErrorResult(cache) == 0

\* a test that would look at the age of the cache only
FreshByAgeOnly(t, fetched, cache) == t - fetched < CACHE_DURATION

\* the test that skips the fetch
Fresh(t, fetched, cache) == t - fetched < CACHE_DURATION /\ Len(cache) > 0

\* handler p, in state proc, calls fetchCalendarData(): up to the first
\* await, or the return of calendarCache
FetchBegin(p, proc) ==
  /\ calls' = calls + 1
  /\ IF Fresh(now, lastFetchTime, heap[calendarCache])
     THEN /\ procs' = [procs EXCEPT ![p] = [proc EXCEPT !.pc = "got", !.call = calls + 1,
                                                        !.allItems = calendarCache]]
          /\ lastReturn' = [call |-> calls + 1, ref |-> calendarCache, how |-> "cache",
                            prev |-> calendarCache, answered |-> TRUE]
          /\ onairCalls' = onairCalls
     ELSE /\ procs' = [procs EXCEPT ![p] =
                        [proc EXCEPT !.pc = "onair", !.call = calls + 1,
                                     !.requests = <<Request("onair", <<>>, "pending")>>]]
          /\ onairCalls' = onairCalls + 1
          /\ lastReturn' = lastReturn
  /\ UNCHANGED <<heap, heapSrc, calendarCache, lastFetchTime>>

\* fetchCalendarData() of handler p returns ref
FetchReturn(p, ref, how, answered) ==
  /\ procs' = [procs EXCEPT ![p].pc = "got", ![p].allItems = ref, ![p].requests = <<>>]
  /\ lastReturn' = [call |-> procs[p].call, ref |-> ref, how |-> how, prev |-> calendarCache,
                    answered |-> answered]

\* from a response to the return: the format test, the loop, the assignment
\* of calendarCache and lastFetchTime
Process(p, response) ==
  IF ~expectedFormat(response)
  THEN /\ FetchReturn(p, ErrorResult(calendarCache), "format", TRUE)
       /\ UNCHANGED <<heap, heapSrc, calendarCache, lastFetchTime>>
  ELSE IF loopThrows(response.items)
  THEN /\ FetchReturn(p, ErrorResult(calendarCache), "error", TRUE)
       /\ UNCHANGED <<heap, heapSrc, calendarCache, lastFetchTime>>
  ELSE /\ heap' = Append(heap, processedItems(response.items, now))
       /\ heapSrc' = Append(heapSrc, [bangumiArray |-> response.items, at |-> now])
       /\ calendarCache' = Len(heap) + 1
       /\ lastFetchTime' = now
       /\ FetchReturn(p, Len(heap) + 1, "fresh", TRUE)

\* a refresh that would bring the stored subscriptions in line with the items
\* of the new list
OnairReturnResyncsStore(p, response) ==
  /\ procs[p].pc = "onair"
  /\ Process(p, response)
  /\ store' = [i \in DOMAIN store |->
                LET hits == SelectSeq(processedItems(response.items, now),
                                      LAMBDA item : item.id = store[i].bangumiId)
                IN IF hits = <<>> THEN store[i]
                   ELSE [store[i] EXCEPT !.weekday = hits[1].weekday,
                                         !.airTime = hits[1].airTime.time]]
  /\ UNCHANGED <<now, cmds, last, nextId, calls, onairCalls>>
  /\ UNCHANGED schedOnly

\* the request to the onair API answers
OnairReturn(p, response) ==
  /\ procs[p].pc = "onair"
  /\ Process(p, response)
  /\ UNCHANGED <<now, store, cmds, last, nextId, calls, onairCalls>>
  /\ UNCHANGED schedOnly

\* a fallback that would not be there: the failure of the onair API ends the
\* refresh
OnairFailGivesUp(p) ==
  /\ procs[p].pc = "onair"
  /\ FetchReturn(p, ErrorResult(calendarCache), "error", FALSE)
  /\ UNCHANGED <<now, store, cmds, last, nextId>>
  /\ UNCHANGED <<heap, heapSrc, calendarCache, lastFetchTime, calls, onairCalls>>
  /\ UNCHANGED schedOnly

\* the request to the onair API fails: the archive of the season is asked
OnairFail(p) ==
  /\ procs[p].pc = "onair"
  /\ procs' = [procs EXCEPT ![p].pc = "archive",
                            ![p].requests = << Request("onair", <<>>, "failed"),
                                               Request("archive", seasonKey(now), "pending") >>]
  /\ UNCHANGED <<now, store, cmds, last, nextId>>
  /\ UNCHANGED cacheVars
  /\ UNCHANGED schedOnly

\* the request to the archive answers
ArchiveReturn(p, response) ==
  /\ procs[p].pc = "archive"
  /\ Process(p, response)
  /\ UNCHANGED <<now, store, cmds, last, nextId, calls, onairCalls>>
  /\ UNCHANGED schedOnly

\* a refresh without the outer catch: the failure of the archive request
\* would end the handler that called fetchCalendarData
ArchiveFailThrows(p) ==
  /\ procs[p].pc = "archive"
  /\ Finish(p, "thrown")
  /\ UNCHANGED <<now, store, cmds, nextId>>
  /\ UNCHANGED cacheVars
  /\ UNCHANGED schedOnly

\* the request to the archive fails too: the outer catch
ArchiveFail(p) ==
  /\ procs[p].pc = "archive"
  /\ FetchReturn(p, ErrorResult(calendarCache), "error", FALSE)
  /\ UNCHANGED <<now, store, cmds, last, nextId>>
  /\ UNCHANGED <<heap, heapSrc, calendarCache, lastFetchTime, calls, onairCalls>>
  /\ UNCHANGED schedOnly

----------------------------------------------------------------------------
(* The commands *)

\* a command arrives and a handler begins to run (in the first free slot)
Receive(p) ==
  /\ procs[p].kind = "idle"
  /\ \A q \in ProcIds : q < p => procs[q].kind # "idle"
  /\ cmds < MaxCmds
  /\ cmds' = cmds + 1

\* a check that would ask for the bangumiId alone
RecordExistsAnyChannel(table, bangumiId, channelId) ==
  \E i \in DOMAIN table : table[i].bangumiId = bangumiId

\* the pre-insert existence check: existing.length > 0
RecordExists(table, bangumiId, channelId) ==
  \E i \in DOMAIN table :
     table[i].bangumiId = bangumiId /\ table[i].channelId = channelId

\* ctx.database.get('bangumi_sub', { channelId })
StoreByChannel(channelId) == SelectSeq(store, LAMBDA r : r.channelId = channelId)

\* subscribe: the id test, the status message, the call of fetchCalendarData()
SubscribeStart(p, channelId, bangumiId) ==
  /\ Receive(p)
  /\ LET proc == [Idle EXCEPT !.kind = "subscribe", !.channelId = channelId,
                              !.bangumiId = bangumiId]
     IN IF ~AllDigits(bangumiId)
        THEN /\ last' = Reply(proc, "invalidId")
             /\ procs' = procs
             /\ UNCHANGED cacheVars
        ELSE /\ FetchBegin(p, proc)
             /\ last' = last
  /\ UNCHANGED <<now, store, nextId>>
  /\ UNCHANGED schedOnly

\* week: the status message, the call of fetchCalendarData()
WeekStart(p) ==
  /\ Receive(p)
  /\ FetchBegin(p, [Idle EXCEPT !.kind = "week"])
  /\ UNCHANGED <<now, store, last, nextId>>
  /\ UNCHANGED schedOnly

\* subscribe, after await fetchCalendarData(): allItems.find
SubscribeFind(p) ==
  /\ procs[p].kind = "subscribe" /\ procs[p].pc = "got"
  /\ LET found == SelectSeq(Deref(procs[p].allItems),
                            LAMBDA item : item.id = procs[p].bangumiId)
     IN IF found = <<>>
        THEN Finish(p, "notFound")
        ELSE /\ procs' = [procs EXCEPT ![p].pc = "check", ![p].bangumi = <<found[1]>>]
             /\ last' = last
  /\ UNCHANGED <<now, store, cmds, nextId>>
  /\ UNCHANGED cacheVars
  /\ UNCHANGED schedOnly

\* subscribe: ctx.database.get answers
SubscribeCheck(p) ==
  /\ procs[p].pc = "check"
  /\ IF RecordExists(store, procs[p].bangumiId, procs[p].channelId)
     THEN Finish(p, "already")
     ELSE /\ procs' = [procs EXCEPT ![p].pc = "create"]
          /\ last' = last
  /\ UNCHANGED <<now, store, cmds, nextId>>
  /\ UNCHANGED cacheVars
  /\ UNCHANGED schedOnly

\* a create that would not copy the item's schedule
SubscribeCreateNoSchedule(p) ==
  /\ procs[p].pc = "create"
  /\ store' = Append(store,
       [id |-> nextId, bangumiId |-> procs[p].bangumiId,
        channelId |-> procs[p].channelId, weekday |-> 0, airTime |-> timeUnknown])
  /\ nextId' = nextId + 1
  /\ Finish(p, "success")
  /\ UNCHANGED <<now, cmds>>
  /\ UNCHANGED cacheVars
  /\ UNCHANGED schedOnly

\* subscribe: ctx.database.create is carried out
SubscribeCreate(p) ==
  /\ procs[p].pc = "create"
  /\ LET bangumi == procs[p].bangumi[1]
     IN store' = Append(store,
          [id |-> nextId, bangumiId |-> procs[p].bangumiId,
           channelId |-> procs[p].channelId, weekday |-> bangumi.weekday,
           airTime |-> IF bangumi.airTime.time # <<>> THEN bangumi.airTime.time
                       ELSE timeUnknown])
  /\ nextId' = nextId + 1
  /\ Finish(p, "success")
  /\ UNCHANGED <<now, cmds>>
  /\ UNCHANGED cacheVars
  /\ UNCHANGED schedOnly

\* week, after await fetchCalendarData(): allItems.sort, in place
WeekSort(p) ==
  /\ procs[p].kind = "week" /\ procs[p].pc = "got"
  /\ IF Deref(procs[p].allItems) = <<>>
     THEN /\ Finish(p, "fetchError")
          /\ heap' = heap
     ELSE /\ heap' = [heap EXCEPT ![procs[p].allItems] = sortItems(@)]
          /\ Finish(p, "ok")
  /\ UNCHANGED <<now, store, cmds, nextId>>
  /\ UNCHANGED <<heapSrc, calendarCache, lastFetchTime, calls, onairCalls, lastReturn>>
  /\ UNCHANGED schedOnly

\* a bounds test that would count from zero
OutOfRangeFromLength(index, length) == index >= length

\* the bounds test of delete
OutOfRange(index, length) == index > length

\* delete: ctx.database.get answers; index is a posint
DeleteGet(p, channelId, index) ==
  /\ Receive(p)
  /\ LET subscriptions == StoreByChannel(channelId)
         proc == [Idle EXCEPT !.kind = "delete", !.channelId = channelId, !.index = index]
     IN IF Len(subscriptions) = 0
        THEN /\ last' = Reply(proc, "empty")
             /\ procs' = procs
        ELSE IF OutOfRange(index, Len(subscriptions))
        THEN /\ last' = Reply(proc, "invalidIndex")
             /\ procs' = procs
        ELSE /\ procs' = [procs EXCEPT ![p] = [proc EXCEPT !.pc = "remove",
                                    !.subToDelete = subscriptions[index].id]]
             /\ last' = last
  /\ UNCHANGED <<now, store, nextId>>
  /\ UNCHANGED cacheVars
  /\ UNCHANGED schedOnly

\* a remove that would take every record of the channel
DeleteRemoveByChannel(p) ==
  /\ procs[p].pc = "remove"
  /\ store' = SelectSeq(store, LAMBDA r : r.channelId # procs[p].channelId)
  /\ procs' = [procs EXCEPT ![p].pc = "removed"]
  /\ UNCHANGED <<now, cmds, last, nextId>>
  /\ UNCHANGED cacheVars
  /\ UNCHANGED schedOnly

\* delete: ctx.database.remove('bangumi_sub', { id }) is carried out by the
\* store; the handler is still awaiting it
DeleteRemove(p) ==
  /\ procs[p].pc = "remove"
  /\ store' = SelectSeq(store, LAMBDA r : r.id # procs[p].subToDelete)
  /\ procs' = [procs EXCEPT ![p].pc = "removed"]
  /\ UNCHANGED <<now, cmds, last, nextId>>
  /\ UNCHANGED cacheVars
  /\ UNCHANGED schedOnly

\* delete: the handler resumes after await ctx.database.remove and returns
\* the success message
DeleteReturn(p) ==
  /\ procs[p].pc = "removed"
  /\ Finish(p, "success")
  /\ UNCHANGED <<now, store, cmds, nextId>>
  /\ UNCHANGED cacheVars
  /\ UNCHANGED schedOnly

\* a clear that would empty the table
ClearEveryChannel(p, channelId) ==
  /\ Receive(p)
  /\ store' = <<>>
  /\ last' = Reply([Idle EXCEPT !.kind = "clear", !.channelId = channelId], "success")
  /\ UNCHANGED <<now, procs, nextId>>
  /\ UNCHANGED cacheVars
  /\ UNCHANGED schedOnly

\* clear: ctx.database.remove('bangumi_sub', { channelId }) is carried out
Clear(p, channelId) ==
  /\ Receive(p)
  /\ store' = SelectSeq(store, LAMBDA r : r.channelId # channelId)
  /\ last' = Reply([Idle EXCEPT !.kind = "clear", !.channelId = channelId], "success")
  /\ UNCHANGED <<now, procs, nextId>>
  /\ UNCHANGED cacheVars
  /\ UNCHANGED schedOnly

\* half an hour passes
ClockAdvance ==
  /\ now + CACHE_DURATION \div 2 <= CmdStart + MaxClockSteps * (CACHE_DURATION \div 2)
  /\ now' = now + CACHE_DURATION \div 2
  /\ UNCHANGED <<store>>
  /\ UNCHANGED cmdVars
  /\ UNCHANGED schedOnly

----------------------------------------------------------------------------
(* Initial states *)

\* Schema.number().default(60)
DefaultInterval == 60

\* Saturday of the second week is day 13, the Sunday after it day 14.
StartTimes ==
  { At(13, 14, 31, 0, 0), At(13, 14, 29, 0, 0), At(13, 14, 29, 59, 999),
    At(13, 22, 30, 0, 0) }

T1530 == <<"1", "5", ":", "3", "0">>
T2350 == <<"2", "3", ":", "5", "0">>
T0010 == <<"0", "0", ":", "1", "0">>
T930 == <<"9", ":", "3", "0">>
T15300 == <<"1", "5", ":", "3", "0", "0">>

Id101 == <<"1", "0", "1">>
Id102 == <<"1", "0", "2">>

Sub(id, b, c, w, a) ==
  [id |-> id, bangumiId |-> b, channelId |-> c, weekday |-> w, airTime |-> a]

\* Stores the table can hold (autoInc ids, in creation order): empty; two
\* Saturday shows of one channel, a record with an empty airTime and one with
\* a digit too many; one show subscribed by two channels and a record with
\* the sentinel; records of other weekdays, weekday 0 included, and a
\* one-digit hour.
InitStores ==
  { <<>>,
    << Sub(1, Id101, "c1", 6, T1530), Sub(2, Id102, "c1", 6, T2350),
       Sub(3, Id102, "c2", 6, <<>>), Sub(4, Id101, "c2", 6, T15300) >>,
    << Sub(1, Id101, "c1", 6, T1530), Sub(2, Id101, "c2", 6, T1530),
       Sub(3, Id102, "c2", 6, timeUnknown) >>,
    << Sub(1, Id101, "c2", 7, T0010), Sub(2, Id101, "c1", 5, T1530),
       Sub(3, Id102, "c1", 6, T930), Sub(4, Id102, "c2", 0, T0010) >> }

Bot(id, status) == [id |-> id, status |-> status]

\* Pools of bots: none; one offline and two online; one online.
BotPools ==
  { <<>>, << Bot("b1", 0), Bot("b2", 1), Bot("b3", 1) >>, << Bot("b1", 1) >> }

SchedInit ==
  /\ now \in StartTimes
  /\ subscriptionInterval = DefaultInterval
  /\ timer = "active"
  /\ lastFire = now
  /\ ticks = <<>>
  /\ attempts = <<>>
  /\ store \in InitStores
  /\ bots \in BotPools
  /\ CmdQuiet
  /\ pure = NoCall
  /\ behindUtc = FALSE

Gaps == { intervalMillis - Jitter, intervalMillis, intervalMillis + Jitter }

SchedNext ==
  \/ \E g \in Gaps : Fire(g)
  \/ \E n \in DOMAIN ticks : TickQueryReturn(n)
  \/ \E n \in DOMAIN ticks : TickQueryFail(n)
  \/ \E n \in DOMAIN ticks, ok \in BOOLEAN : TickSendReturn(n, ok)
  \/ Dispose

SpecSched == SchedInit /\ [][SchedNext]_vars

\* Every store query and every bot.sendMessage call that a tick awaits is
\* answered in the end, by a return or by an error.
AwaitsSettle ==
  \A n \in 1 .. MaxTicks :
    /\ WF_vars(TickQueryReturn(n) \/ TickQueryFail(n))
    /\ WF_vars(\E ok \in BOOLEAN : TickSendReturn(n, ok))

SpecSchedFair == SpecSched /\ AwaitsSettle

\* The service's checkAndPushSubscriptions called directly, several times at
\* one instant or at instants a minute apart around a 15:30 airing.
InvokeTimes == { At(13, 15, 29, 0, 0), At(13, 15, 30, 0, 0), At(13, 15, 31, 0, 0) }

TwiceInit ==
  /\ now \in InvokeTimes
  /\ subscriptionInterval = DefaultInterval
  /\ timer = "active"
  /\ lastFire = now
  /\ ticks = <<>>
  /\ attempts = <<>>
  /\ store \in InitStores
  /\ bots \in BotPools
  /\ CmdQuiet
  /\ pure = NoCall
  /\ behindUtc = FALSE

\* time passes between two calls
TimePasses ==
  /\ \E t \in InvokeTimes : t > now /\ now' = t
  /\ UNCHANGED <<subscriptionInterval, timer, lastFire, ticks, attempts, store, bots>>
  /\ UNCHANGED cmdVars

TwiceNext ==
  \/ Invoke
  \/ \E n \in DOMAIN ticks : TickQueryReturn(n)
  \/ \E n \in DOMAIN ticks : TickQueryFail(n)
  \/ \E n \in DOMAIN ticks, ok \in BOOLEAN : TickSendReturn(n, ok)
  \/ TimePasses

SpecTwice == TwiceInit /\ [][TwiceNext]_vars

\* what the upstream sends: raw entries of bgmlist.com
Site(site, url, id) == [site |-> site, url |-> url, id |-> id]

Raw(title, broadcast, sites) ==
  [null |-> FALSE, title |-> title, broadcast |-> broadcast, sites |-> sites]

RawNull == [null |-> TRUE, title |-> "", broadcast |-> <<>>, sites |-> <<>>]

Url101 ==
  <<"b", "g", "m", ".", "t", "v", "/", "s", "u", "b", "j", "e", "c", "t",
  "/", "1", "0", "1">>
UrlNoSubject ==
  <<"b", "g", "m", ".", "t", "v", "/", "s", "/", "1", "0", "4">>
Url105 ==
  <<"b", "g", "m", ".", "t", "v", "/", "s", "u", "b", "j", "e", "c", "t",
  "/", "1", "0", "5">>
Id104 == <<"1", "0", "4">>

\* "R/2024-07-06T15:30:00/P7D": a Saturday
BroadcastSat1530 ==
  <<"R", "/", "2", "0", "2", "4", "-", "0", "7", "-", "0", "6", "T", "1",
  "5", ":", "3", "0", ":", "0", "0", "/", "P", "7", "D">>
\* "R/2024-07-06T23:50:00/P7D"
BroadcastSat2350 ==
  <<"R", "/", "2", "0", "2", "4", "-", "0", "7", "-", "0", "6", "T", "2",
  "3", ":", "5", "0", ":", "0", "0", "/", "P", "7", "D">>
\* "R/2024-07-05T16:00:00/P7D": a Friday
BroadcastFri1600 ==
  <<"R", "/", "2", "0", "2", "4", "-", "0", "7", "-", "0", "5", "T", "1",
  "6", ":", "0", "0", ":", "0", "0", "/", "P", "7", "D">>
\* "R/2024-04-06T22:00:00/P7D": the season before
BroadcastSpring ==
  <<"R", "/", "2", "0", "2", "4", "-", "0", "4", "-", "0", "6", "T", "2",
  "2", ":", "0", "0", ":", "0", "0", "/", "P", "7", "D">>
\* the simple format: U+5468 U+516D, a blank, 23:30
BroadcastSimple == <<"U+5468", "U+516D", " ", "2", "3", ":", "3", "0">>

Raw101 == Raw("A", BroadcastSat1530,
              <<Site("bangumi", Url101, Id101), Site("bilibili", <<>>, <<>>)>>)
Raw102 == Raw("B", BroadcastSat2350, <<Site("bangumi", <<>>, Id102)>>)
Raw101Moved == Raw("A", BroadcastFri1600, <<Site("bangumi", Url101, <<>>)>>)
RawSimple == Raw("C", BroadcastSimple, <<Site("bangumi", Url105, <<>>)>>)
RawNoSubject == Raw("D", BroadcastSat1530, <<Site("bangumi", UrlNoSubject, Id104)>>)
RawSpring == Raw("E", BroadcastSpring, <<Site("bangumi", Url105, <<>>)>>)
RawNoSite == Raw("F", BroadcastSat1530, <<Site("bilibili", <<>>, <<>>)>>)

Response(shape, hasItems, items) == [shape |-> shape, hasItems |-> hasItems, items |-> items]

Responses ==
  { Response("array", FALSE, <<Raw102, RawSimple, Raw101, RawNoSubject, RawSpring>>),
    Response("object", TRUE, <<Raw101Moved, RawNoSite>>),
    Response("array", FALSE, <<RawSpring, RawSimple>>),
    Response("array", FALSE, <<Raw101, RawNull>>),
    Response("object", FALSE, <<>>) }

Channels == {"c1", "c2"}

IdNotDigits == <<"1", "a">>

BangumiIds == {Id101, Id102, IdNotDigits, <<>>}

Indices == 1 .. 3

CmdStores ==
  { <<>>,
    << Sub(1, Id101, "c1", 6, T1530), Sub(2, Id102, "c2", 6, T2350),
       Sub(3, Id102, "c1", 6, T2350) >> }

CmdInit ==
  /\ now = CmdStart
  /\ subscriptionInterval = DefaultInterval
  /\ timer = "cleared"
  /\ lastFire = now
  /\ ticks = <<>>
  /\ attempts = <<>>
  /\ store \in CmdStores
  /\ bots = <<>>
  /\ CmdQuiet
  /\ pure = NoCall
  /\ behindUtc = FALSE

CmdNext ==
  \/ \E p \in ProcIds, c \in Channels, b \in BangumiIds : SubscribeStart(p, c, b)
  \/ \E p \in ProcIds : WeekStart(p)
  \/ \E p \in ProcIds, r \in Responses : OnairReturn(p, r)
  \/ \E p \in ProcIds : OnairFail(p)
  \/ \E p \in ProcIds, r \in Responses : ArchiveReturn(p, r)
  \/ \E p \in ProcIds : ArchiveFail(p)
  \/ \E p \in ProcIds : SubscribeFind(p)
  \/ \E p \in ProcIds : SubscribeCheck(p)
  \/ \E p \in ProcIds : SubscribeCreate(p)
  \/ \E p \in ProcIds : WeekSort(p)
  \/ \E p \in ProcIds, c \in Channels, k \in Indices : DeleteGet(p, c, k)
  \/ \E p \in ProcIds : DeleteRemove(p)
  \/ \E p \in ProcIds : DeleteReturn(p)
  \/ \E p \in ProcIds, c \in Channels : Clear(p, c)
  \/ ClockAdvance

SpecCmd == CmdInit /\ [][CmdNext]_vars

\* Ticks and commands together: checkAndPushSubscriptions is called on
\* Saturday 6 July 2024 at 15:30 while subscribe, delete and clear commands
\* come in from the two channels.
MixedInit ==
  /\ now = At(13, 15, 30, 0, 0)
  /\ subscriptionInterval = DefaultInterval
  /\ timer = "active"
  /\ lastFire = now
  /\ ticks = <<>>
  /\ attempts = <<>>
  /\ store = << Sub(1, Id101, "c1", 6, T1530), Sub(2, Id102, "c1", 6, T1530) >>
  /\ bots = << Bot("b1", 1) >>
  /\ CmdQuiet
  /\ pure = NoCall
  /\ behindUtc = FALSE

MixedTicks == 1    \* calls of checkAndPushSubscriptions in a run of both

MixedNext ==
  \/ Len(ticks) < MixedTicks /\ Invoke
  \/ \E n \in DOMAIN ticks : TickQueryReturn(n)
  \/ \E n \in DOMAIN ticks : TickQueryFail(n)
  \/ \E n \in DOMAIN ticks, ok \in BOOLEAN : TickSendReturn(n, ok)
  \/ \E p \in ProcIds, c \in Channels, b \in BangumiIds : SubscribeStart(p, c, b)
  \/ \E p \in ProcIds, r \in Responses : OnairReturn(p, r)
  \/ \E p \in ProcIds : OnairFail(p)
  \/ \E p \in ProcIds, r \in Responses : ArchiveReturn(p, r)
  \/ \E p \in ProcIds : ArchiveFail(p)
  \/ \E p \in ProcIds : SubscribeFind(p)
  \/ \E p \in ProcIds : SubscribeCheck(p)
  \/ \E p \in ProcIds : SubscribeCreate(p)
  \/ \E p \in ProcIds, c \in Channels, k \in Indices : DeleteGet(p, c, k)
  \/ \E p \in ProcIds : DeleteRemove(p)
  \/ \E p \in ProcIds : DeleteReturn(p)
  \/ \E p \in ProcIds, c \in Channels : Clear(p, c)

SpecMixed == MixedInit /\ [][MixedNext]_vars

\* The functions of services/bangumi.ts, each called once on one input.
DigitChars == <<"0", "1", "2", "3", "4", "5", "6", "7", "8", "9">>

Two(n) == <<DigitChars[((n \div 10) % 10) + 1], DigitChars[(n % 10) + 1]>>

\* "YYYY-MM-DD"
DateText(ymd) ==
  Two(ymd[1] \div 100) \o Two(ymd[1]) \o <<"-">> \o Two(ymd[2]) \o <<"-">> \o Two(ymd[3])

\* "YYYY-MM-DDTHH:MM:SS"
IsoText(ymd, hms) ==
  DateText(ymd) \o <<"T">> \o Two(hms[1]) \o <<":">> \o Two(hms[2]) \o <<":">> \o Two(hms[3])

\* year, month and day numbers of the dates tried: days of the summer and
\* spring seasons of 2024, of other years, a day number past the month's end,
\* and a month that does not exist
PureDates ==
  { <<2024, 7, 6>>, <<2024, 7, 7>>, <<2024, 7, 8>>, <<2024, 7, 1>>, <<2024, 4, 6>>,
    <<2024, 10, 1>>, <<2024, 3, 31>>, <<2023, 12, 31>>, <<2023, 8, 15>>, <<2025, 1, 1>>,
    <<2024, 6, 31>>, <<2024, 13, 45>> }

\* hours, minutes and seconds of the times tried
PureClocks ==
  { <<15, 30, 0>>, <<0, 0, 0>>, <<23, 59, 59>>, <<9, 5, 7>>, <<24, 0, 0>>, <<25, 30, 0>> }

\* a recurrence expression, the bare date and time, and a string in which the
\* weekday-name format comes before the date and time
BroadcastsOf(iso) ==
  { <<"R", "/">> \o iso \o <<"/", "P", "7", "D">>, iso, BroadcastSimple \o <<" ">> \o iso }

ParseInputs ==
  UNION { BroadcastsOf(IsoText(ymd, hms)) : ymd \in PureDates, hms \in PureClocks }
    \cup { <<>>, BroadcastSimple, <<"T", "B", "A">> }

\* what parseAirTime gives as date: ten characters of the form dddd-dd-dd, or
\* nothing
SeasonInputs == { DateText(ymd) : ymd \in PureDates } \cup { <<>> }

ListInputs ==
  { r.items : r \in Responses } \cup
  { <<Raw101, Raw101Moved>>, <<Raw101, Raw102, Raw101>>, <<RawNoSite, Raw102>> }

\* new Date() at the calls: a day of June (second quarter) and a day of July
PureNows == { At(3, 12, 0, 0, 0), CmdStart }

PureInit ==
  /\ now \in PureNows
  /\ subscriptionInterval = DefaultInterval
  /\ timer = "cleared"
  /\ lastFire = now
  /\ ticks = <<>>
  /\ attempts = <<>>
  /\ store = <<>>
  /\ bots = <<>>
  /\ CmdQuiet
  /\ behindUtc \in BOOLEAN
  /\ pure \in { [NoCall EXCEPT !.fn = "parseAirTime", !.broadcast = b] : b \in ParseInputs }
          \cup { [NoCall EXCEPT !.fn = "isCurrentSeasonAnime", !.airDate = a] :
                   a \in SeasonInputs }
          \cup { [NoCall EXCEPT !.fn = "processedItems", !.bangumiArray = l] :
                   l \in ListInputs }

PureNext ==
  \/ ParseAirTimeCall
  \/ IsCurrentSeasonAnimeCall
  \/ ProcessedItemsCall

SpecPure == PureInit /\ [][PureNext]_vars

----------------------------------------------------------------------------
(* Properties of the scheduler *)

\* the delivery attempts made for subscription id at the airing instant T
Count(id, T) ==
  Cardinality({k \in DOMAIN attempts : attempts[k].sub = id /\ attempts[k].at = T})

\* the delivery attempts tick n made for subscription id
CountIn(n, id) ==
  Cardinality({k \in DOMAIN attempts : attempts[k].tick = n /\ attempts[k].sub = id})

AllDone == \A n \in DOMAIN ticks : ticks[n].pc = "done"

Regular ==
  \A n \in DOMAIN ticks : n > 1 => ticks[n].now - ticks[n - 1].now = intervalMillis

ModelDays == 7 .. 20

\* the instants at which (weekday, airTime) occurs
Occurrences(w, a) ==
  { d * MsPerDay + Number2(SubSeq(a, 1, 2)) * MsPerHour + Number2(SubSeq(a, 4, 5)) * MsPerMinute :
      d \in { e \in ModelDays : todayWeekday(e * MsPerDay) = w } }

\* C1 (as claimed): with ticks exactly P apart, every well-formed subscription
\* gets exactly one delivery attempt for each occurrence of its (weekday,
\* airTime) instant between the first and the last tick of the run, whatever
\* the time of day.
C1_ExactlyOncePerAiring ==
  (Len(ticks) >= 1 /\ AllDone /\ Regular) =>
    \A i \in DOMAIN store :
      airTimeWellFormed(store[i].airTime) =>
        \A T \in Occurrences(store[i].weekday, store[i].airTime) :
          (ticks[1].now < T /\ T <= ticks[Len(ticks)].now) => Count(store[i].id, T) = 1

\* C2 (as claimed): when ticks are not exactly P apart, an airing instant that
\* lies between two consecutive ticks of the same local day is still attempted
\* in exactly one tick.
C2_ExactlyOnceUnderJitter ==
  AllDone =>
    \A n \in DOMAIN ticks : \A i \in DOMAIN store :
      (n > 1 /\ startOfDay(ticks[n - 1].now) = startOfDay(ticks[n].now)
             /\ airTimeWellFormed(store[i].airTime)) =>
        \A T \in Occurrences(store[i].weekday, store[i].airTime) :
          (ticks[n - 1].now < T /\ T <= ticks[n].now) => Count(store[i].id, T) = 1

\* C4: a finished tick has made one delivery attempt for a subscription of its
\* weekday query with a well-formed airTime if lastCheck < candidate <= now,
\* and none otherwise, where lastCheck = now - P and candidate is the day of
\* now at HH:MM:00.000; with P = 60 and airTime 15:30, a tick at 15:31 makes
\* one attempt and a tick at 15:29 none.
C4_DueIffInWindow ==
  \A n \in DOMAIN ticks :
    ticks[n].pc = "done" =>
      \A i \in DOMAIN ticks[n].subs :
        LET sub == ticks[n].subs[i]
            tnow == ticks[n].now
            lastCheck == tnow - subscriptionInterval * 60000
            candidate == (tnow - (tnow % 86400000))
                           + Number2(SubSeq(sub.airTime, 1, 2)) * 3600000
                           + Number2(SubSeq(sub.airTime, 4, 5)) * 60000
        IN airTimeWellFormed(sub.airTime) =>
             /\ CountIn(n, sub.id) = IF lastCheck < candidate /\ candidate <= tnow THEN 1 ELSE 0
             /\ (subscriptionInterval = 60 /\ sub.airTime = T1530) =>
                  /\ tnow % 86400000 = At(0, 15, 31, 0, 0) => CountIn(n, sub.id) = 1
                  /\ tnow % 86400000 = At(0, 15, 29, 0, 0) => CountIn(n, sub.id) = 0

\* C4 witness: a finished tick at 15:31 that attempted a 15:30 subscription
C4_Witness ==
  \E n \in DOMAIN ticks :
    /\ ticks[n].pc = "done"
    /\ ticks[n].now % MsPerDay = At(0, 15, 31, 0, 0)
    /\ \E i \in DOMAIN ticks[n].subs :
         ticks[n].subs[i].airTime = T1530 /\ CountIn(n, ticks[n].subs[i].id) = 1

\* C8 (as claimed): after dispose no tick starts and the scheduler makes no
\* delivery attempt, even if a tick was in progress when dispose occurred.
C8_NothingAfterDispose ==
  /\ \A n \in DOMAIN ticks : ~ticks[n].disposed
  /\ \A k \in DOMAIN attempts : ~attempts[k].disposed

----------------------------------------------------------------------------
(* Properties of the commands and of the calendar cache *)

\* C3 (as claimed): whatever subscribe, delete and clear commands have run,
\* and however they were interleaved, the store holds at most one record for
\* a pair of bangumiId and channelId.
C3_AtMostOnePerPair ==
  \A i, j \in DOMAIN store :
     (store[i].bangumiId = store[j].bangumiId /\ store[i].channelId = store[j].channelId)
       => i = j

FailedHow == {"error", "format"}

C6_SkipIffFreshAndNonEmpty ==
  [][calls' = calls + 1 =>
       IF now - lastFetchTime < 3600 * 1000 /\ Len(heap[calendarCache]) > 0
       THEN /\ onairCalls' = onairCalls
            /\ lastReturn'.call = calls'
            /\ lastReturn'.ref = calendarCache
            /\ \E p \in ProcIds : procs'[p].call = calls' /\ procs'[p].allItems = calendarCache
            /\ heap' = heap
            /\ calendarCache' = calendarCache
            /\ lastFetchTime' = lastFetchTime
       ELSE /\ onairCalls' = onairCalls + 1
            /\ \E p \in ProcIds : procs'[p].call = calls' /\ procs'[p].pc = "onair"
            /\ lastReturn' = lastReturn]_vars

\* a call has been answered from the cache, which a refresh had filled
C6_Witness ==
  /\ lastReturn.how = "cache"
  /\ Len(heap[lastReturn.ref]) > 0
  /\ onairCalls >= 1
  /\ lastFetchTime > 0

\* how many times x occurs in s
Occurs(s, x) == Cardinality({i \in DOMAIN s : s[i] = x})

\* a and b hold the same items, each as many times
SameItems(a, b) ==
  /\ Len(a) = Len(b)
  /\ \A i \in DOMAIN a : Occurs(a, a[i]) = Occurs(b, a[i])

\* every item that the raw entries of one response give rise to, the
\* response having come at time t
RECURSIVE ItemsOf(_, _)
ItemsOf(bangumiArray, t) ==
  IF bangumiArray = <<>> THEN <<>>
  ELSE ItemsOf(SubSeq(bangumiArray, 1, Len(bangumiArray) - 1), t)
         \o pushed(bangumiArray[Len(bangumiArray)], t)

Generation(src) == ItemsOf(src.bangumiArray, src.at)

\* C7: whatever the interleaving of fetchCalendarData() calls, calendarCache
\* and every array a caller was given hold all the items of one response and
\* nothing else: never a list that is still being built, never items of two
\* generations.
C7_ReadersSeeWholeGenerations ==
  /\ calendarCache \in DOMAIN heap
  /\ \A p \in ProcIds : procs[p].allItems \in DOMAIN heap \cup {0}
  /\ \A ref \in DOMAIN heap : SameItems(heap[ref], Generation(heapSrc[ref]))
  /\ \A p \in ProcIds :
       procs[p].bangumi # <<>> =>
         \E i \in DOMAIN heap[procs[p].allItems] :
            heap[procs[p].allItems][i] = procs[p].bangumi[1]

\* a caller holds one generation of two items while calendarCache holds
\* another generation
C7_Witness ==
  \E p \in ProcIds :
     /\ procs[p].allItems \notin {0, calendarCache}
     /\ Len(heap[procs[p].allItems]) = 2
     /\ Len(heap[calendarCache]) > 0
     /\ ~SameItems(heap[procs[p].allItems], heap[calendarCache])

\* the store holds a record of the pair
HasRecord(table, bangumiId, channelId) ==
  Cardinality({i \in DOMAIN table : table[i].bangumiId = bangumiId
                                    /\ table[i].channelId = channelId}) > 0

ListOf(table, channelId) == SelectSeq(table, LAMBDA r : r.channelId = channelId)

----------------------------------------------------------------------------
(* Properties of sendPushNotification and of the ticks *)

\* C11: every sendPushNotification call makes at most one sendMessage call,
\* on the first bot in pool order whose status is online; it returns true
\* exactly when that call returned without error, and false when no bot is
\* online or the call raised, and then no second online bot was called.
C11_OneCallOnFirstOnlineBot ==
  \A k \in DOMAIN attempts :
    LET a == attempts[k]
        online == {i \in DOMAIN bots : bots[i].status = 1}
    IN /\ Len(a.called) <= 1
       /\ online = {} => a.called = <<>> /\ a.sent = "none" /\ a.result = "false"
       /\ online # {} =>
            /\ Len(a.called) = 1
            /\ \E i \in online : a.called[1] = bots[i].id /\ \A j \in online : i <= j
       /\ a.result = "true" <=> a.sent = "ok"
       /\ a.sent = "raised" => a.result = "false"
       /\ a.result = "pending" <=> a.sent = "pending"

\* C11 witness: with two bots online, sendMessage on the first of them raised,
\* the call returned false, and the tick ended without calling the second
C11_Witness ==
  \E k \in DOMAIN attempts :
    /\ Cardinality({i \in DOMAIN bots : bots[i].status = 1}) = 2
    /\ attempts[k].sent = "raised" /\ attempts[k].result = "false"
    /\ attempts[k].called = <<"b2">>
    /\ ticks[attempts[k].tick].pc = "done"

\* C16 (as claimed): ticks never overlap: at most one tick is between its
\* start and its end at any time; a firing of the timer while the previous
\* tick is still running starts no tick.
C16_TicksNeverOverlap ==
  Cardinality({n \in DOMAIN ticks : ticks[n].pc \notin {"done", "failed"}}) <= 1

\* an airing instant T lies in the window of no tick so far
InNoWindow(T) ==
  \A n \in DOMAIN ticks :
    ~(ticks[n].now - subscriptionInterval * 60000 < T /\ T <= ticks[n].now)

\* C17: there is no catch-up: an airing instant of a subscription that lies in
\* the window (now - P, now] of no tick has no delivery attempt, however many
\* ticks ran after it; and the lower end of every tick's window is its own
\* now minus P, whatever the tick before it did.
C17_NoCatchUp ==
  /\ \A n \in DOMAIN ticks :
       ticks[n].lastCheckTime = ticks[n].now - subscriptionInterval * 60000
  /\ \A i \in DOMAIN store :
       airTimeWellFormed(store[i].airTime) =>
         \A T \in Occurrences(store[i].weekday, store[i].airTime) :
           InNoWindow(T) => Count(store[i].id, T) = 0

\* C17 witness: every tick is over, an airing instant of a subscription lies
\* between two consecutive ticks that are more than P apart and in no tick's
\* window, and it has no delivery attempt
C17_Witness ==
  /\ AllDone
  /\ \E n \in DOMAIN ticks : \E i \in DOMAIN store :
       /\ n > 1 /\ ticks[n].now - ticks[n - 1].now > intervalMillis
       /\ airTimeWellFormed(store[i].airTime)
       /\ \E T \in Occurrences(store[i].weekday, store[i].airTime) :
            /\ ticks[n - 1].now < T /\ T <= ticks[n].now
            /\ InNoWindow(T)
            /\ Count(store[i].id, T) = 0

\* the sendPushNotification calls of tick n, in the order they were made
AttemptsOf(n) == SelectSeq(attempts, LAMBDA a : a.tick = n)

\* the subscriptions of tick n's query result that are due, in result order
DueOf(n) ==
  SelectSeq(ticks[n].subs,
            LAMBDA sub : /\ airTimeWellFormed(sub.airTime)
                         /\ airTimeDate(ticks[n].now, sub.airTime) > ticks[n].lastCheckTime
                         /\ airTimeDate(ticks[n].now, sub.airTime) <= ticks[n].now)

\* C19: within a tick every due subscription gets exactly one delivery attempt,
\* in the order of the query result and whatever the other attempts returned:
\* a delivery that failed or raised is not retried in that tick and does not
\* prevent the attempts for the subscriptions after it.
C19_OneAttemptEachWhateverTheOutcome ==
  \A n \in DOMAIN ticks :
    ticks[n].pc = "done" =>
      /\ Len(AttemptsOf(n)) = Len(DueOf(n))
      /\ \A k \in DOMAIN DueOf(n) : AttemptsOf(n)[k].sub = DueOf(n)[k].id
      /\ \A k \in DOMAIN AttemptsOf(n) : AttemptsOf(n)[k].result \in {"true", "false"}
      /\ ticks[n].pushedCount =
           Len(SelectSeq(AttemptsOf(n), LAMBDA a : a.result = "true"))

\* C19 witness: a finished tick with two due subscriptions whose first
\* delivery raised and whose second delivery was made and succeeded
C19_Witness ==
  \E n \in DOMAIN ticks :
    /\ ticks[n].pc = "done"
    /\ Len(DueOf(n)) = 2 /\ Len(AttemptsOf(n)) = 2
    /\ AttemptsOf(n)[1].sent = "raised" /\ AttemptsOf(n)[1].result = "false"
    /\ AttemptsOf(n)[2].sub = DueOf(n)[2].id /\ AttemptsOf(n)[2].result = "true"

\* C20: when the store query of a tick fails, the tick ends there: it has made
\* no delivery attempt and makes none later; the step leaves the timer and
\* the time of its last firing as they were; the timer can fire the next tick
\* at its scheduled time, that tick starts with its query, and when it is over
\* it has attempted exactly its due subscriptions.
C20_QueryFailureEndsOnlyTheTick ==
  [][/\ \A n \in DOMAIN ticks :
          (ticks[n].pc = "query" /\ ticks'[n].pc = "failed") =>
            /\ AttemptsOf(n) = <<>>
            /\ attempts' = attempts
            /\ timer' = timer /\ lastFire' = lastFire
            /\ subscriptionInterval' = subscriptionInterval
     /\ \A n \in DOMAIN ticks :
          ticks[n].pc = "failed" => ticks'[n] = ticks[n] /\ AttemptsOf(n)' = <<>>
     /\ (/\ ticks # <<>> /\ ticks[Len(ticks)].pc = "failed"
         /\ timer = "active"
         /\ Len(ticks) < MaxTicks /\ Cardinality(Inflight) < MaxInflight)
          => ENABLED Fire(intervalMillis)
     /\ (/\ ticks # <<>> /\ ticks[Len(ticks)].pc = "failed"
         /\ Len(ticks') = Len(ticks) + 1)
          => /\ ticks'[Len(ticks')].pc = "query"
             /\ ticks'[Len(ticks')].now - lastFire \in
                  { subscriptionInterval * 60000 + j : j \in -Jitter .. Jitter }
     /\ \A n \in DOMAIN ticks' :
          (n > 1 /\ ticks'[n - 1].pc = "failed" /\ ticks'[n].pc = "done") =>
            /\ Len(AttemptsOf(n)') = Len(DueOf(n)')
            /\ \A k \in DOMAIN DueOf(n)' : AttemptsOf(n)'[k].sub = DueOf(n)'[k].id]_vars

\* C20 witness: the query of the 15:29 tick failed and the tick made no
\* attempt; the next tick ran 60 minutes later and attempted a 15:30 airing
C20_Witness ==
  \E n \in DOMAIN ticks :
    /\ n > 1
    /\ ticks[n - 1].pc = "failed" /\ AttemptsOf(n - 1) = <<>>
    /\ ticks[n - 1].now % MsPerDay = At(0, 15, 29, 0, 0)
    /\ ticks[n].pc = "done"
    /\ ticks[n].now - ticks[n - 1].now = intervalMillis
    /\ Len(AttemptsOf(n)) >= 1
    /\ timer = "active"

\* the record of the table that has the given id
RecordOf(id) == store[CHOOSE i \in DOMAIN store : store[i].id = id]

\* C21: a subscription whose airTime is empty, is the sentinel for an unknown
\* time, or is anything else than two digits, a colon and two digits, gets no
\* delivery attempt from any tick, whatever the time and the weekday.
C21_IllFormedNeverAttempted ==
  \A k \in DOMAIN attempts :
    LET a == RecordOf(attempts[k].sub).airTime
    IN /\ a # <<>> /\ a # timeUnknown
       /\ Len(a) = 5
       /\ \A i \in {1, 2, 4, 5} : a[i] \in {"0", "1", "2", "3", "4", "5", "6", "7", "8", "9"}
       /\ a[3] = ":"

\* C21 witness: a finished Saturday tick at 15:31 whose query result held a
\* 15:30 record, a record with an empty airTime and one with "15:300": it
\* attempted the first and neither of the others
C21_Witness ==
  \E n \in DOMAIN ticks :
    /\ ticks[n].pc = "done"
    /\ \E i, j, k \in DOMAIN ticks[n].subs :
         /\ ticks[n].subs[i].airTime = T1530 /\ CountIn(n, ticks[n].subs[i].id) = 1
         /\ ticks[n].subs[j].airTime = <<>> /\ CountIn(n, ticks[n].subs[j].id) = 0
         /\ ticks[n].subs[k].airTime = T15300 /\ CountIn(n, ticks[n].subs[k].id) = 0

\* C23: a tick attempts delivery only for subscriptions whose stored weekday is
\* the weekday of the tick's now, counted Monday = 1 .. Sunday = 7; a record
\* with another weekday, 0 included, is not attempted in that tick.
C23_OnlyTodaysWeekday ==
  \A k \in DOMAIN attempts :
    LET jsDay == (ticks[attempts[k].tick].now \div 86400000) % 7
        w == RecordOf(attempts[k].sub).weekday
    IN /\ w \in 1 .. 7
       /\ w = IF jsDay = 0 THEN 7 ELSE jsDay

\* C23 witness: a finished Sunday tick attempted the weekday-7 record due at
\* 00:10 and not the weekday-0 record with the same airTime
C23_Witness ==
  \E n \in DOMAIN ticks :
    /\ ticks[n].pc = "done" /\ getDay(ticks[n].now) = 0
    /\ \E i, j \in DOMAIN store :
         /\ store[i].weekday = 7 /\ store[i].airTime = T0010
         /\ CountIn(n, store[i].id) = 1
         /\ store[j].weekday = 0 /\ store[j].airTime = T0010
         /\ CountIn(n, store[j].id) = 0

\* the subscriptions tick n has attempted, in order
AttemptedBy(n) == [k \in DOMAIN AttemptsOf(n) |-> AttemptsOf(n)[k].sub]

\* C22: two finished ticks that ran with the same now, the same P and the same
\* table (no step of these runs writes the table or P) have attempted the same
\* subscriptions: nothing records that a subscription was attempted, so one
\* that was due in the first tick is attempted again by the second.
C22_SameInputsSameDecisions ==
  \A n, m \in DOMAIN ticks :
    (/\ ticks[n].pc = "done" /\ ticks[m].pc = "done"
     /\ ticks[n].now = ticks[m].now) =>
      AttemptedBy(n) = AttemptedBy(m)

\* C22 witness: two finished ticks with the same now, the second started when
\* the first was over, and both attempted the same 15:30 airing
C22_Witness ==
  \E n, m \in DOMAIN ticks :
    /\ n < m /\ ticks[n].pc = "done" /\ ticks[m].pc = "done"
    /\ ticks[n].now = ticks[m].now
    /\ \E a, b \in DOMAIN attempts :
         /\ a < b /\ attempts[a].tick = n /\ attempts[b].tick = m
         /\ attempts[a].sub = attempts[b].sub /\ attempts[a].at = attempts[b].at
         /\ attempts[a].result = "true"
         /\ \A c \in DOMAIN attempts : attempts[c].tick = n => c < b

\* C24: a step of a tick (its start, the return or the failure of its query,
\* the return of a sendMessage call) leaves the table as it was, record for
\* record, and leaves the calendar cache and lastFetchTime as they were.
C24_TicksWriteNothing ==
  [][(ticks' # ticks \/ attempts' # attempts) =>
       /\ store' = store /\ nextId' = nextId
       /\ calendarCache' = calendarCache /\ lastFetchTime' = lastFetchTime
       /\ heap' = heap]_vars

\* C24 witness: a tick is over, one of its pushes has succeeded, the record it
\* pushed is still in the table, and the cache is the empty one of the start
C24_Witness ==
  \E k \in DOMAIN attempts :
    /\ attempts[k].result = "true"
    /\ ticks[attempts[k].tick].pc = "done"
    /\ \E i \in DOMAIN store : store[i].id = attempts[k].sub
    /\ calendarCache = 1 /\ heap = << <<>> >> /\ lastFetchTime = 0

----------------------------------------------------------------------------
(* Properties of the calendar cache and of subscribe *)

\* C12 (as claimed): a cached generation is never mutated in place: as long as
\* calendarCache refers to the same array, no step of a command handler
\* changes the contents or the order of that array; the cache changes only
\* when a refresh installs another array.
C12_NeverMutatedInPlace ==
  [][calendarCache' = calendarCache => heap'[calendarCache] = heap[calendarCache]]_vars

C14_SubscribeThenListed ==
  [][\A p \in ProcIds :
       (procs[p].pc = "create" /\ procs'[p].pc = "idle" /\ last'.outcome = "success") =>
         LET X == procs[p].bangumi[1]
             entries == SelectSeq(ListOf(store', procs[p].channelId),
                                  LAMBDA r : r.bangumiId = X.id)
         IN /\ Len(entries) = 1
            /\ entries[1].weekday = X.weekday
            /\ entries[1].airTime = X.airTime.time]_vars

\* C15 (as claimed): overlapping fetchCalendarData calls collapse: at most one
\* request to the onair API is outstanding at any time.
C15_OneRequestOutstanding ==
  Cardinality({p \in ProcIds : procs[p].pc = "onair"}) <= 1

\* C25: a subscription record is never changed after its creation: a record
\* that is still in the table after a step is as it was before the step, and
\* a step that installs a new generation, whatever it holds for the items
\* subscribed to, leaves the whole table as it was.
C25_RecordsNeverUpdated ==
  [][/\ \A i \in DOMAIN store : \A j \in DOMAIN store' :
          store'[j].id = store[i].id => store'[j] = store[i]
     /\ calendarCache' # calendarCache => store' = store]_vars

\* C25 witness: a subscription to 101 made in this run when the catalog had it
\* on Saturday 15:30 is still Saturday 15:30 in the table, and the generation
\* now cached has 101 on Friday 16:00
C25_Witness ==
  /\ Len(store) = 1 /\ nextId = 2
  /\ store[1].bangumiId = Id101 /\ store[1].weekday = 6 /\ store[1].airTime = T1530
  /\ \E k \in DOMAIN heap[calendarCache] :
       /\ heap[calendarCache][k].id = Id101
       /\ heap[calendarCache][k].weekday = 5
       /\ heap[calendarCache][k].airTime.time = <<"1", "6", ":", "0", "0">>

OnairThenArchive(requests) ==
  /\ Len(requests) <= 2
  /\ Len(requests) >= 1 => requests[1].source = "onair"
  /\ Len(requests) = 2 <=> (Len(requests) >= 1 /\ requests[1].state = "failed")
  /\ Len(requests) = 2 =>
       /\ requests[2].source = "archive"
       /\ requests[2].key = <<2024, 3>>

\* C27: in one refresh the archive of the season (year, quarter) is requested
\* if and only if the request to the onair API has failed, and at most once;
\* when the archive request fails too the call returns the empty result, no
\* generation is installed and lastFetchTime stays as it was.
C27_ArchiveOnlyAfterOnairFailed ==
  [][\A p \in ProcIds :
       /\ OnairThenArchive(procs'[p].requests)
       /\ procs'[p].pc = "onair" <=>
            (Len(procs'[p].requests) = 1 /\ procs'[p].requests[1].state = "pending")
       /\ procs'[p].pc = "archive" <=>
            (Len(procs'[p].requests) = 2 /\ procs'[p].requests[2].state = "pending")
       /\ (procs'[p].pc = "archive" /\ procs[p].pc # "archive") =>
            procs[p].pc = "onair" /\ onairCalls' = onairCalls
       /\ (procs[p].pc = "onair" /\ procs'[p].pc # "onair") =>
            \/ procs'[p].pc = "archive"
            \/ procs'[p].pc = "got" /\ lastReturn'.call = procs[p].call
                                    /\ lastReturn'.answered
       /\ (/\ procs[p].pc = "archive" /\ procs'[p].pc # "archive"
           /\ ~lastReturn'.answered) =>
            /\ procs'[p].pc = "got" /\ procs'[p].allItems = 0
            /\ lastReturn'.call = procs[p].call
            /\ lastReturn'.how = "error" /\ lastReturn'.ref = 0
            /\ calendarCache' = calendarCache /\ heap' = heap
            /\ lastFetchTime' = lastFetchTime]_vars

\* C27 witness: a refresh whose onair request and archive request both failed
\* has returned the empty result, and the generation installed before it is
\* still the cached one
C27_Witness ==
  /\ ~lastReturn.answered
  /\ lastReturn.how = "error" /\ lastReturn.ref = 0
  /\ calendarCache > 1 /\ lastReturn.prev = calendarCache
  /\ heap[calendarCache] # <<>>

\* C28: when the response of the onair API or of the archive is neither a list
\* nor an object with an items list, the call returns an empty result, and the
\* cached generation and lastFetchTime keep the values they had.
C28_UnexpectedFormatIsAFailure ==
  [][\A p \in ProcIds : \A r \in Responses :
       (/\ r.shape # "array" /\ ~(r.shape = "object" /\ r.hasItems)
        /\ (OnairReturn(p, r) \/ ArchiveReturn(p, r))) =>
         /\ calendarCache' = calendarCache /\ heap' = heap
         /\ lastFetchTime' = lastFetchTime
         /\ procs'[p].pc = "got" /\ Deref(procs[p].allItems)' = <<>>
         /\ lastReturn'.call = procs[p].call /\ Deref(lastReturn.ref)' = <<>>]_vars

\* C28 witness: a refresh that got a response of an unexpected format has
\* returned the empty result, and the generation and the fetch time of the
\* refresh before it are still there
C28_Witness ==
  /\ lastReturn.how = "format" /\ lastReturn.ref = 0 /\ lastReturn.answered
  /\ calendarCache > 1 /\ heap[calendarCache] # <<>>
  /\ lastFetchTime = CmdStart
  /\ now >= lastFetchTime + CACHE_DURATION

\* C29 (as claimed): every raw entry with a bangumi site record that passes the
\* season filter has an item in the generation built from its list whenever
\* that record has a url matching subject/<digits> or a non-empty id field,
\* the item's id being the digits of the url match, else the id field.
C29_EveryIdentifiedEntryIsKept ==
  \A r \in DOMAIN heap : \A j \in DOMAIN heapSrc[r].bangumiArray :
    LET raw == heapSrc[r].bangumiArray[j]
        tagged == SelectSeq(raw.sites, LAMBDA s : s.site = "bangumi")
        date == parseAirTime(raw.broadcast).date
        i == FirstMatch(tagged[1].url, <<"s", "u", "b", "j", "e", "c", "t", "/", "#">>)
        fromUrl == IF i > 0 THEN DigitRun(tagged[1].url, i + 8) ELSE <<>>
        identifier == IF fromUrl # <<>> THEN fromUrl ELSE tagged[1].id
    IN (/\ tagged # <<>>
        /\ date # <<>> /\ isCurrentSeasonAnime(date, heapSrc[r].at)
        /\ identifier # <<>>) =>
         \E k \in DOMAIN heap[r] :
            heap[r][k].title = raw.title /\ heap[r][k].id = identifier

\* a call of fetchCalendarData() by handler p returns in this step
Returns(p) == procs[p].pc \in {"onair", "archive"} /\ procs'[p].pc = "got"

\* C30 (as claimed): the cached generation and lastFetchTime change only
\* together and only in the step in which a successful refresh returns, the
\* generation becoming the whole list built from the response and
\* lastFetchTime the time of that step; a refresh that fails leaves both as
\* they were.
C30_CacheAndFetchTimeChangeTogether ==
  [][/\ (\/ calendarCache' # calendarCache
          \/ Deref(calendarCache)' # Deref(calendarCache)
          \/ lastFetchTime' # lastFetchTime) =>
         /\ \E p \in ProcIds : Returns(p) /\ procs'[p].allItems = calendarCache'
         /\ calendarCache' \notin DOMAIN heap
         /\ heap'[calendarCache'] = Generation(heapSrc'[calendarCache'])
         /\ heapSrc'[calendarCache'].at = now
         /\ lastFetchTime' = now
      /\ \A p \in ProcIds :
           (Returns(p) /\ lastReturn'.how \in {"format", "error"}) =>
             /\ calendarCache' = calendarCache
             /\ Deref(calendarCache)' = Deref(calendarCache)
             /\ lastFetchTime' = lastFetchTime]_vars

\* the day of the week, Monday = 1 .. Sunday = 7, of the civil date y-m-d
DayOfWeek(y, m, d) == ((DaysFromCivil(y, m, d) + 3) % 7) + 1

\* C34 (as claimed): for every broadcast string that contains
\* YYYY-MM-DDTHH:MM:SS, parseAirTime returns the day of the week of that date
\* (Monday = 1 .. Sunday = 7) as weekday, the HH:MM of the time part as time
\* and the YYYY-MM-DD substring as date, also when the weekday-name pattern
\* matches too.
C34_IsoWeekdayTimeDate ==
  LET i == FirstMatch(pure.broadcast, IsoPattern)
      iso == SubSeq(pure.broadcast, i, i + 18)
  IN (pure.fn = "parseAirTime" /\ pure.returned /\ i > 0) =>
       /\ ~pure.airTime.none
       /\ pure.airTime.weekday = DayOfWeek(NumberOf(SubSeq(iso, 1, 4)),
                                           NumberOf(SubSeq(iso, 6, 7)),
                                           NumberOf(SubSeq(iso, 9, 10)))
       /\ pure.airTime.time = SubSeq(iso, 12, 16)
       /\ pure.airTime.date = SubSeq(iso, 1, 10)

\* the number of days of month m of year y
DaysInMonth(y, m) ==
  IF m = 2 THEN (IF y % 4 = 0 /\ (y % 100 # 0 \/ y % 400 = 0) THEN 29 ELSE 28)
  ELSE IF m \in {4, 6, 9, 11} THEN 30 ELSE 31

\* C35 (as claimed): isCurrentSeasonAnime(date) is true if and only if the
\* date's year is the current year and its month is at or after the first
\* month (1, 4, 7 or 10) of the current quarter; it is false for an empty date,
\* for a string that is no date, and for every date of another year.  (A day
\* number past the end of its month is counted on into the next month.)
C35_InSeasonIffYearAndQuarter ==
  LET y == NumberOf(SubSeq(pure.airDate, 1, 4))
      m == NumberOf(SubSeq(pure.airDate, 6, 7))
      d == NumberOf(SubSeq(pure.airDate, 9, 10))
      over == d > DaysInMonth(y, m)
      month == IF over THEN (m % 12) + 1 ELSE m
      year == IF over /\ m = 12 THEN y + 1 ELSE y
      today == currentDate(now)
      first == CHOOSE q \in {1, 4, 7, 10} : today.month \in q .. q + 2
  IN (pure.fn = "isCurrentSeasonAnime" /\ pure.returned) =>
       (pure.inSeason <=>
          /\ pure.airDate # <<>>
          /\ m \in 1..12 /\ d \in 1..31
          /\ year = today.year /\ month >= first)

\* C33 (as claimed): in the list that the loop of a refresh builds, and that
\* the refresh installs as the new generation, no two items have the same id,
\* whatever the list of raw entries holds.
C33_IdsUniqueInAGeneration ==
  (pure.fn = "processedItems" /\ pure.returned) =>
    \A i, j \in DOMAIN pure.items : pure.items[i].id = pure.items[j].id => i = j

\* C36: every record that subscribe creates has an airTime of two digits, a
\* colon and two digits, never the 'time unknown' text, and its weekday and
\* airTime are the weekday and the time of the item with its bangumiId in the
\* list the handler got from fetchCalendarData().
C36_CreatedRecordsHaveATime ==
  [][Len(store') > Len(store) =>
       LET rec == store'[Len(store')]
       IN /\ Len(rec.airTime) = 5 /\ rec.airTime[3] = ":"
          /\ \A k \in {1, 2, 4, 5} : rec.airTime[k] \in Digits
          /\ rec.airTime # timeUnknown
          /\ \E p \in ProcIds :
               /\ procs[p].kind = "subscribe" /\ procs'[p].kind = "idle"
               /\ rec.channelId = procs[p].channelId
               /\ rec.bangumiId = procs[p].bangumiId
               /\ \E k \in DOMAIN Deref(procs[p].allItems) :
                    LET item == Deref(procs[p].allItems)[k]
                    IN /\ item.id = rec.bangumiId
                       /\ item.weekday = rec.weekday
                       /\ item.airTime.time = rec.airTime
                       /\ item.airTime.date # <<>>]_vars

\* C36 witness: subscribe has created a record for an item of the catalog, a
\* Friday 16:00 show
C36_Witness ==
  /\ last.kind = "subscribe" /\ last.outcome = "success"
  /\ store # <<>>
  /\ store[Len(store)].id = nextId - 1
  /\ store[Len(store)].bangumiId = last.bangumiId
  /\ store[Len(store)].weekday = 5
  /\ store[Len(store)].airTime = <<"1", "6", ":", "0", "0">>

\* the removal of a delete command of handler p removes at most one record,
\* and only a record of the channel the command came from
RemovesOneOfItsChannel(p) ==
  (procs[p].pc = "remove" /\ procs'[p].pc = "removed") =>
    /\ Len(store') >= Len(store) - 1
    /\ \A i \in DOMAIN store :
         (\A j \in DOMAIN store' : store'[j] # store[i]) =>
           store[i].channelId = procs[p].channelId

\* handlers p and q run delete commands of the same channel with the same
\* ordinal, and both have read their list
SameDelete(p, q) ==
  /\ p # q
  /\ procs[p].kind = "delete" /\ procs[q].kind = "delete"
  /\ procs[p].channelId = procs[q].channelId
  /\ procs[p].index = procs[q].index

\* C37 (as claimed): under any interleaving, a delete command from channel c
\* removes at most one record and only a record of c, and two delete commands
\* of one channel with the same ordinal that are in progress together remove
\* at most one record between them: the records they remove are the same.
C37_ConcurrentDeletesRemoveOne ==
  [][/\ \A p \in ProcIds : RemovesOneOfItsChannel(p)
     /\ \A p, q \in ProcIds :
          SameDelete(p, q)' => procs'[p].subToDelete = procs'[q].subToDelete]_vars

\* C37 (amended): a delete command from channel c removes at most one record
\* and only a record of c; a delete command that reads the channel's list while
\* another one of the same channel and ordinal awaits its removal, the record
\* that one took being still at that ordinal, takes the same record; and of two
\* delete commands that took the same record the second removal removes
\* nothing.
C37_DeletesThatReadTogetherRemoveOne ==
  [][/\ \A p \in ProcIds : RemovesOneOfItsChannel(p)
     /\ \A p, q \in ProcIds :
          (/\ SameDelete(p, q)' /\ procs[p].pc = "remove"
           /\ procs[q].kind = "idle" /\ procs'[q].pc = "remove"
           /\ procs[p].index <= Len(StoreByChannel(procs[p].channelId))
           /\ StoreByChannel(procs[p].channelId)[procs[p].index].id = procs[p].subToDelete)
            => procs'[q].subToDelete = procs[p].subToDelete
     /\ \A p, q \in ProcIds :
          (/\ SameDelete(p, q) /\ procs[p].subToDelete = procs[q].subToDelete
           /\ procs[q].pc = "removed"
           /\ procs[p].pc = "remove" /\ procs'[p].pc = "removed")
            => store' = store]_vars

\* C37 witness: two delete 1 commands of channel c1 were in progress together,
\* both removals have been carried out, and one record of c1 is gone
C37_Witness ==
  /\ SameDelete(1, 2) /\ procs[1].channelId = "c1" /\ procs[1].index = 1
  /\ procs[1].pc = "removed" /\ procs[2].pc = "removed"
  /\ procs[1].subToDelete = procs[2].subToDelete
  /\ store = << Sub(2, Id102, "c2", 6, T2350), Sub(3, Id102, "c1", 6, T2350) >>

\* C38: a subscribe command whose id argument is missing or is not all digits
\* ends at once with the invalid-id reply: no call of fetchCalendarData(), no
\* request, no handler left running, the store unchanged.  A subscribe command
\* whose id is not the id of an item of the list it got ends with the
\* not-found reply, the store unchanged.
C38_NoRecordForBadOrUnknownId ==
  [][/\ \A p \in ProcIds, c \in Channels, b \in BangumiIds :
          (SubscribeStart(p, c, b) /\ (b = <<>> \/ \E i \in DOMAIN b : b[i] \notin Digits))
            => /\ store' = store /\ nextId' = nextId
               /\ calls' = calls /\ onairCalls' = onairCalls
               /\ procs' = procs
               /\ last'.kind = "subscribe" /\ last'.outcome = "invalidId"
     /\ \A p \in ProcIds :
          (/\ procs[p].kind = "subscribe" /\ procs[p].pc = "got"
           /\ procs'[p] # procs[p]
           /\ \A k \in DOMAIN Deref(procs[p].allItems) :
                Deref(procs[p].allItems)[k].id # procs[p].bangumiId)
            => /\ store' = store /\ nextId' = nextId
               /\ procs'[p] = Idle
               /\ last'.kind = "subscribe" /\ last'.outcome = "notFound"]_vars

\* C38 witness: subscribe to 102 was answered not-found from a catalog that
\* holds other items, and the store is as it was at the start
C38_Witness ==
  /\ last.kind = "subscribe" /\ last.outcome = "notFound" /\ last.bangumiId = Id102
  /\ lastReturn.ref > 1 /\ heap[lastReturn.ref] # <<>>
  /\ store \in CmdStores /\ store # <<>>
  /\ nextId = Len(store) + 1

\* the ticks that have started and have not come to their end
Checking == {n \in DOMAIN ticks : ticks[n].pc \notin {"done", "failed"}}

\* C32: when every store query and every delivery call is answered in the
\* end, every tick that has started comes to its end and the scheduler is idle
\* again, whatever the number of due subscriptions and whichever deliveries
\* succeed or fail.
C32_EveryTickEnds == (Checking # {}) ~> (Checking = {})

\* C32 witness: a tick has come to its end after several deliveries, of which
\* one succeeded and one failed
C32_Witness ==
  \E n \in DOMAIN ticks :
    /\ ticks[n].pc = "done"
    /\ Len(AttemptsOf(n)) >= 2
    /\ \E k \in DOMAIN AttemptsOf(n) : AttemptsOf(n)[k].result = "true"
    /\ \E k \in DOMAIN AttemptsOf(n) : AttemptsOf(n)[k].result = "false"

\* the ids of the records of a query result that are due at the tick's now,
\* in the order of the result
DueIds(t) ==
  LET due == SelectSeq(t.subs,
        LAMBDA sub : /\ airTimeWellFormed(sub.airTime)
                     /\ airTimeDate(t.now, sub.airTime) > t.now - intervalMillis
                     /\ airTimeDate(t.now, sub.airTime) <= t.now)
  IN [k \in DOMAIN due |-> due[k].id]

\* C39: a tick takes its list from one query and its now from one reading of
\* the clock, both at its start: the list is the table's records of the weekday
\* as the table was when the query was answered, neither changes afterwards,
\* the subscriptions it attempts are the due ones of that list, in order, and
\* a command that writes the table while the tick is delivering changes
\* neither the list nor the attempts.
C39_TickActsOnItsSnapshot ==
  [][\A n \in DOMAIN ticks :
       /\ (ticks[n].pc = "query" /\ ticks'[n].pc \in {"send", "done"}) =>
            ticks'[n].subs = SelectSeq(store, LAMBDA r : r.weekday = ticks[n].todayWeekday)
       /\ ticks[n].pc # "query" => ticks'[n].subs = ticks[n].subs
       /\ ticks'[n].now = ticks[n].now
       /\ Len(AttemptedBy(n)') <= Len(DueIds(ticks'[n]))
       /\ AttemptedBy(n)' = SubSeq(DueIds(ticks'[n]), 1, Len(AttemptedBy(n)'))
       /\ ticks'[n].pc = "done" => AttemptedBy(n)' = DueIds(ticks'[n])
       /\ store' # store => ticks'[n] = ticks[n] /\ attempts' = attempts]_vars

\* C39 witness: a tick whose query returned the two due records of channel c1
\* is awaiting its first delivery when clear empties the table; the tick then
\* attempts the second record all the same
C39_Witness ==
  /\ ticks # <<>> /\ ticks[1].pc = "done"
  /\ Len(ticks[1].subs) = 2
  /\ AttemptedBy(1) = <<1, 2>>
  /\ attempts[2].disposed = FALSE
  /\ store = <<>> /\ last.kind = "clear" /\ cmds = 1
  /\ attempts[1].result = "true" /\ attempts[2].result = "false"

\* C31: a failure of the store query ends the tick in its catch with no
\* attempt made, a delivery that raises is a false result after which the loop
\* goes on, and a refresh whose requests fail or whose response is unusable
\* returns the empty list to the handler that called it, which goes on: no
\* tick and no call of fetchCalendarData ends in any other way.
C31_NoFailureEscapes ==
  [][/\ \A n \in DOMAIN ticks :
          /\ (ticks[n].pc = "query" /\ ticks'[n].pc # "query") =>
                /\ ticks'[n].pc \in {"send", "done", "failed"}
                /\ ticks'[n].pc = "failed" =>
                      AttemptsOf(n)' = <<>> /\ timer' = timer /\ store' = store
          /\ (ticks[n].pc = "send" /\ ticks'[n] # ticks[n]) =>
                /\ ticks'[n].pc \in {"send", "done"}
                /\ LET k == Len(AttemptsOf(n))
                   IN /\ AttemptsOf(n)'[k].sent \in {"ok", "raised"}
                      /\ AttemptsOf(n)'[k].result =
                           (IF AttemptsOf(n)'[k].sent = "ok" THEN "true" ELSE "false")
     /\ \A p \in ProcIds :
          (procs[p].pc \in {"onair", "archive"} /\ procs'[p] # procs[p]) =>
             \/ procs[p].pc = "onair" /\ procs'[p].pc = "archive"
             \/ /\ procs'[p].pc = "got" /\ procs'[p].kind = procs[p].kind
                /\ lastReturn'.call = procs[p].call
                /\ lastReturn'.how \in {"fresh", "error", "format"}
                /\ lastReturn'.how \in FailedHow =>
                      Deref(lastReturn.ref)' = <<>> /\ procs'[p].allItems = lastReturn'.ref]_vars

\* C31 witness: the store query of a tick has raised and the tick ended with no
\* attempt, both requests of a refresh have failed and subscribe, given the
\* empty list, answered that there is no such item
C31_Witness ==
  /\ ticks # <<>> /\ ticks[1].pc = "failed" /\ AttemptsOf(1) = <<>>
  /\ lastReturn.how = "error" /\ ~lastReturn.answered /\ Deref(lastReturn.ref) = <<>>
  /\ last.kind = "subscribe" /\ last.outcome = "notFound"
  /\ timer = "active" /\ Len(store) = 2

====
